---- MODULE Spec2Model ----
(***************************************************************************)
(* GeoVet: the lookup engine (lookup, lookupBatch, parallelMap,            *)
(* resolveToIp), the two geo providers (local GeoLite2 readers, ipinfo.io  *)
(* with timeout/retry) and the CDN classifier (detectCdn).                 *)
(*                                                                         *)
(* Strings that the code inspects (addresses, hostnames, org strings) are  *)
(* sequences of tokens in which every separator is a token of its own:     *)
(* "104.16.1.1" is <<"104", ".", "16", ".", "1", ".", "1">>.  startsWith   *)
(* and the $-anchored suffix patterns are then computed token by token.    *)
(* The empty string is <<>>.                                               *)
(***************************************************************************)
EXTENDS Integers, Sequences, FiniteSets, TLC

VARIABLES
  entry,      \* the public entry point that was called: "lookup" or "lookupBatch"
  inputs,     \* lookupBatch: the items; lookup: the one input, as <<input>>
  options,    \* LookupOptions: [provider] and, when configured, [concurrency]
  batch,      \* lookupBatch's promise: "called", "running", "returned", "threw"; "none" for lookup
  index,      \* parallelMap: the shared index counter
  completed,  \* parallelMap: the completed counter
  results,    \* parallelMap: the results array (a hole is NoResult)
  progress,   \* the (completed, total) pairs handed to onProgress, in call order
  workers,    \* parallelMap's workers / the lookup call: position and locals
  readers,    \* the local provider's cityReader / asnReader (TRUE = loaded)
  world,      \* what the DNS resolver, the file system, the databases and the
              \* remote service answered so far (a query once answered keeps its answer)
  last,       \* the lookup that returned most recently: its result and what it called
  detect,     \* a direct call detectCdn(ip, asn, hostname): arguments and return value
  cli         \* a run of the CLI's lookup command: its arguments, exit code and stderr

vars == <<entry, inputs, options, batch, index, completed, results, progress,
          workers, readers, world, last, detect, cli>>

----------------------------------------------------------------------------
(* Bounds of the model *)

MaxInputs == 2        \* longest input list of a batch
MaxConcurrency == 2   \* largest configured concurrency
MaxStallInputs == 3   \* length of the input list of a batch with a slow lookup

(* Program constants *)

MAX_RETRIES == 2
DEFAULT_CONCURRENCY_LOCAL == 50
DEFAULT_CONCURRENCY_REMOTE == 10

----------------------------------------------------------------------------
(* Strings *)

Dot4(a, b, c, d) == <<a, ".", b, ".", c, ".", d>>

StartsWith(s, prefix) ==
  /\ Len(prefix) <= Len(s)
  /\ SubSeq(s, 1, Len(prefix)) = prefix

EndsWith(s, suffix) ==
  /\ Len(suffix) <= Len(s)
  /\ SubSeq(s, Len(s) - Len(suffix) + 1, Len(s)) = suffix

\* The tokens written in upper case among the inputs, with their lower case.
UpperTokens == [CLOUDFRONT |-> "cloudfront", NET |-> "net", COM |-> "com"]

ToLower(tok) == IF tok \in DOMAIN UpperTokens THEN UpperTokens[tok] ELSE tok

LowerCase(s) == [i \in 1..Len(s) |-> ToLower(s[i])]

Octets == {ToString(n) : n \in 0..255}

\* The IPv6 literals of the model.
V6_CLOUDFLARE == <<"2606", ":", "4700", ":", ":", "1111">>
V6_GOOGLE == <<"2001", ":", "4860", ":", "4860", ":", ":", "8888">>
IPv6Literals == {V6_CLOUDFLARE, V6_GOOGLE}

\* net.isIP: 4 for a dotted-decimal IPv4 literal, 6 for an IPv6 literal, 0 otherwise.
IsIP(s) ==
  IF /\ Len(s) = 7
     /\ \A i \in {2, 4, 6} : s[i] = "."
     /\ \A i \in {1, 3, 5, 7} : s[i] \in Octets
  THEN 4
  ELSE IF s \in IPv6Literals THEN 6 ELSE 0

----------------------------------------------------------------------------
(* cdn.ts: the static tables *)

CDN_ASNS ==
  13335 :> [name |-> "Cloudflare", type |-> "cdn"] @@
  209242 :> [name |-> "Cloudflare", type |-> "cdn"] @@
  20940 :> [name |-> "Akamai", type |-> "cdn"] @@
  16625 :> [name |-> "Akamai", type |-> "cdn"] @@
  32787 :> [name |-> "Akamai", type |-> "cdn"] @@
  12222 :> [name |-> "Akamai", type |-> "cdn"] @@
  17204 :> [name |-> "Akamai", type |-> "cdn"] @@
  18680 :> [name |-> "Akamai", type |-> "cdn"] @@
  18717 :> [name |-> "Akamai", type |-> "cdn"] @@
  23454 :> [name |-> "Akamai", type |-> "cdn"] @@
  23455 :> [name |-> "Akamai", type |-> "cdn"] @@
  24319 :> [name |-> "Akamai", type |-> "cdn"] @@
  26008 :> [name |-> "Akamai", type |-> "cdn"] @@
  30675 :> [name |-> "Akamai", type |-> "cdn"] @@
  31107 :> [name |-> "Akamai", type |-> "cdn"] @@
  31108 :> [name |-> "Akamai", type |-> "cdn"] @@
  31109 :> [name |-> "Akamai", type |-> "cdn"] @@
  31110 :> [name |-> "Akamai", type |-> "cdn"] @@
  33905 :> [name |-> "Akamai", type |-> "cdn"] @@
  34164 :> [name |-> "Akamai", type |-> "cdn"] @@
  35204 :> [name |-> "Akamai", type |-> "cdn"] @@
  36183 :> [name |-> "Akamai", type |-> "cdn"] @@
  39836 :> [name |-> "Akamai", type |-> "cdn"] @@
  43639 :> [name |-> "Akamai", type |-> "cdn"] @@
  55409 :> [name |-> "Akamai", type |-> "cdn"] @@
  55770 :> [name |-> "Akamai", type |-> "cdn"] @@
  133103 :> [name |-> "Akamai", type |-> "cdn"] @@
  54113 :> [name |-> "Fastly", type |-> "cdn"] @@
  15133 :> [name |-> "Verizon Edgecast", type |-> "cdn"] @@
  12989 :> [name |-> "StackPath", type |-> "cdn"] @@
  30081 :> [name |-> "StackPath", type |-> "cdn"] @@
  200651 :> [name |-> "KeyCDN", type |-> "cdn"] @@
  200325 :> [name |-> "BunnyCDN", type |-> "cdn"] @@
  22822 :> [name |-> "Limelight", type |-> "cdn"] @@
  38622 :> [name |-> "Limelight", type |-> "cdn"] @@
  36408 :> [name |-> "CDNetworks", type |-> "cdn"] @@
  205544 :> [name |-> "jsDelivr", type |-> "cdn"] @@
  30148 :> [name |-> "Sucuri", type |-> "cdn"] @@
  202468 :> [name |-> "ArvanCloud", type |-> "cdn"] @@
  199524 :> [name |-> "G-Core Labs", type |-> "cdn"] @@
  202422 :> [name |-> "G-Core Labs", type |-> "cdn"] @@
  16509 :> [name |-> "Amazon CloudFront/AWS", type |-> "cloud"] @@
  14618 :> [name |-> "Amazon AWS", type |-> "cloud"] @@
  8987 :> [name |-> "Amazon AWS", type |-> "cloud"] @@
  38895 :> [name |-> "Amazon AWS", type |-> "cloud"] @@
  15169 :> [name |-> "Google Cloud", type |-> "cloud"] @@
  396982 :> [name |-> "Google Cloud", type |-> "cloud"] @@
  19527 :> [name |-> "Google Cloud", type |-> "cloud"] @@
  36039 :> [name |-> "Google Cloud", type |-> "cloud"] @@
  36040 :> [name |-> "Google Cloud", type |-> "cloud"] @@
  41264 :> [name |-> "Google Cloud", type |-> "cloud"] @@
  43515 :> [name |-> "Google Cloud", type |-> "cloud"] @@
  8075 :> [name |-> "Microsoft Azure", type |-> "cloud"] @@
  8068 :> [name |-> "Microsoft", type |-> "cloud"] @@
  8069 :> [name |-> "Microsoft", type |-> "cloud"] @@
  12076 :> [name |-> "Microsoft Azure", type |-> "cloud"] @@
  45102 :> [name |-> "Alibaba Cloud", type |-> "cloud"] @@
  37963 :> [name |-> "Alibaba Cloud", type |-> "cloud"] @@
  45103 :> [name |-> "Alibaba Cloud", type |-> "cloud"] @@
  45090 :> [name |-> "Tencent Cloud", type |-> "cloud"] @@
  132203 :> [name |-> "Tencent Cloud", type |-> "cloud"] @@
  31898 :> [name |-> "Oracle Cloud", type |-> "cloud"] @@
  36351 :> [name |-> "IBM Cloud", type |-> "cloud"] @@
  2687 :> [name |-> "IBM Cloud", type |-> "cloud"] @@
  14061 :> [name |-> "DigitalOcean", type |-> "cloud"] @@
  63949 :> [name |-> "Linode", type |-> "cloud"] @@
  20473 :> [name |-> "Vultr", type |-> "cloud"] @@
  16276 :> [name |-> "OVHcloud", type |-> "cloud"] @@
  24940 :> [name |-> "Hetzner", type |-> "cloud"] @@
  12876 :> [name |-> "Scaleway", type |-> "cloud"] @@
  25697 :> [name |-> "UpCloud", type |-> "cloud"] @@
  7684 :> [name |-> "Sakura Internet", type |-> "cloud"] @@
  9370 :> [name |-> "Sakura Internet", type |-> "cloud"] @@
  7506 :> [name |-> "GMO Internet", type |-> "cloud"] @@
  17511 :> [name |-> "IDCF", type |-> "cloud"] @@
  4713 :> [name |-> "NTT Communications", type |-> "cloud"] @@
  2516 :> [name |-> "KDDI", type |-> "cloud"] @@
  2497 :> [name |-> "IIJ", type |-> "cloud"] @@
  23576 :> [name |-> "Naver Cloud", type |-> "cloud"] @@
  209366 :> [name |-> "Vercel", type |-> "hosting"] @@
  212481 :> [name |-> "Netlify", type |-> "hosting"] @@
  60626 :> [name |-> "Heroku", type |-> "hosting"] @@
  397373 :> [name |-> "Render", type |-> "hosting"] @@
  40509 :> [name |-> "Fly.io", type |-> "hosting"] @@
  36459 :> [name |-> "GitHub", type |-> "hosting"] @@
  56987 :> [name |-> "GitLab", type |-> "hosting"] @@
  53831 :> [name |-> "Squarespace", type |-> "hosting"] @@
  58113 :> [name |-> "Wix", type |-> "hosting"] @@
  13413 :> [name |-> "Shopify", type |-> "hosting"] @@
  2635 :> [name |-> "Automattic/WordPress.com", type |-> "hosting"] @@
  62638 :> [name |-> "Pantheon", type |-> "hosting"] @@
  46664 :> [name |-> "WP Engine", type |-> "hosting"] @@
  395894 :> [name |-> "Kinsta", type |-> "hosting"] @@
  19551 :> [name |-> "Imperva Incapsula", type |-> "security"] @@
  55002 :> [name |-> "F5 Networks", type |-> "security"] @@
  38621 :> [name |-> "Radware", type |-> "security"] @@
  7786 :> [name |-> "Neustar", type |-> "security"] @@
  19905 :> [name |-> "Neustar", type |-> "security"]

CDN_HOSTNAME_PATTERNS == <<
  <<<<".", "cloudfront", ".", "net">>, "Amazon CloudFront", "cdn">>,
  <<<<".", "cloudflare", ".", "com">>, "Cloudflare", "cdn">>,
  <<<<".", "akamaiedge", ".", "net">>, "Akamai", "cdn">>,
  <<<<".", "akamai", ".", "net">>, "Akamai", "cdn">>,
  <<<<".", "akamaihd", ".", "net">>, "Akamai", "cdn">>,
  <<<<".", "edgesuite", ".", "net">>, "Akamai", "cdn">>,
  <<<<".", "edgekey", ".", "net">>, "Akamai", "cdn">>,
  <<<<".", "srip", ".", "net">>, "Akamai", "cdn">>,
  <<<<".", "akamaitechnologies", ".", "com">>, "Akamai", "cdn">>,
  <<<<".", "fastly", ".", "net">>, "Fastly", "cdn">>,
  <<<<".", "fastlylb", ".", "net">>, "Fastly", "cdn">>,
  <<<<".", "azureedge", ".", "net">>, "Azure CDN", "cdn">>,
  <<<<".", "vo", ".", "msecnd", ".", "net">>, "Azure CDN", "cdn">>,
  <<<<".", "edgecastcdn", ".", "net">>, "Verizon Edgecast", "cdn">>,
  <<<<".", "systemcdn", ".", "net">>, "Verizon Edgecast", "cdn">>,
  <<<<".", "stackpathdns", ".", "com">>, "StackPath", "cdn">>,
  <<<<".", "stackpathcdn", ".", "com">>, "StackPath", "cdn">>,
  <<<<".", "kxcdn", ".", "com">>, "KeyCDN", "cdn">>,
  <<<<".", "b-cdn", ".", "net">>, "BunnyCDN", "cdn">>,
  <<<<".", "bunnycdn", ".", "com">>, "BunnyCDN", "cdn">>,
  <<<<".", "llnwd", ".", "net">>, "Limelight", "cdn">>,
  <<<<".", "lldns", ".", "net">>, "Limelight", "cdn">>,
  <<<<".", "cdnetworks", ".", "net">>, "CDNetworks", "cdn">>,
  <<<<".", "cachefly", ".", "net">>, "CacheFly", "cdn">>,
  <<<<".", "cdn77", ".", "org">>, "CDN77", "cdn">>,
  <<<<".", "jsdelivr", ".", "net">>, "jsDelivr", "cdn">>,
  <<<<".", "unpkg", ".", "com">>, "unpkg", "cdn">>,
  <<<<".", "cdnjs", ".", "cloudflare", ".", "com">>, "cdnjs", "cdn">>,
  <<<<".", "gcore", ".", "com">>, "G-Core Labs", "cdn">>,
  <<<<".", "amazonaws", ".", "com">>, "Amazon AWS", "cloud">>,
  <<<<".", "awsglobalaccelerator", ".", "com">>, "AWS Global Accelerator", "cloud">>,
  <<<<".", "elasticbeanstalk", ".", "com">>, "AWS Elastic Beanstalk", "cloud">>,
  <<<<".", "googleapis", ".", "com">>, "Google Cloud", "cloud">>,
  <<<<".", "googleusercontent", ".", "com">>, "Google Cloud", "cloud">>,
  <<<<".", "ghs", ".", "googlehosted", ".", "com">>, "Google", "cloud">>,
  <<<<".", "run", ".", "app">>, "Google Cloud Run", "cloud">>,
  <<<<".", "appspot", ".", "com">>, "Google App Engine", "cloud">>,
  <<<<".", "firebaseapp", ".", "com">>, "Firebase", "cloud">>,
  <<<<".", "web", ".", "app">>, "Firebase", "cloud">>,
  <<<<".", "azure", ".", "com">>, "Microsoft Azure", "cloud">>,
  <<<<".", "azurewebsites", ".", "net">>, "Azure App Service", "cloud">>,
  <<<<".", "blob", ".", "core", ".", "windows", ".", "net">>, "Azure Blob", "cloud">>,
  <<<<".", "trafficmanager", ".", "net">>, "Azure Traffic Manager", "cloud">>,
  <<<<".", "cloudapp", ".", "azure", ".", "com">>, "Azure", "cloud">>,
  <<<<".", "digitaloceanspaces", ".", "com">>, "DigitalOcean", "cloud">>,
  <<<<".", "ondigitalocean", ".", "app">>, "DigitalOcean App Platform", "cloud">>,
  <<<<".", "vultr", ".", "com">>, "Vultr", "cloud">>,
  <<<<".", "linode", ".", "com">>, "Linode", "cloud">>,
  <<<<".", "linodeobjects", ".", "com">>, "Linode", "cloud">>,
  <<<<".", "ovh", ".", "net">>, "OVHcloud", "cloud">>,
  <<<<".", "hetzner", ".", "com">>, "Hetzner", "cloud">>,
  <<<<".", "scaleway", ".", "com">>, "Scaleway", "cloud">>,
  <<<<".", "aliyuncs", ".", "com">>, "Alibaba Cloud", "cloud">>,
  <<<<".", "alicdn", ".", "com">>, "Alibaba Cloud CDN", "cloud">>,
  <<<<".", "myqcloud", ".", "com">>, "Tencent Cloud", "cloud">>,
  <<<<".", "oraclecloud", ".", "com">>, "Oracle Cloud", "cloud">>,
  <<<<".", "sakura", ".", "ne", ".", "jp">>, "Sakura Internet", "cloud">>,
  <<<<".", "vercel", ".", "app">>, "Vercel", "hosting">>,
  <<<<".", "now", ".", "sh">>, "Vercel", "hosting">>,
  <<<<".", "netlify", ".", "app">>, "Netlify", "hosting">>,
  <<<<".", "netlify", ".", "com">>, "Netlify", "hosting">>,
  <<<<".", "herokuapp", ".", "com">>, "Heroku", "hosting">>,
  <<<<".", "onrender", ".", "com">>, "Render", "hosting">>,
  <<<<".", "fly", ".", "dev">>, "Fly.io", "hosting">>,
  <<<<".", "railway", ".", "app">>, "Railway", "hosting">>,
  <<<<".", "github", ".", "io">>, "GitHub Pages", "hosting">>,
  <<<<".", "gitlab", ".", "io">>, "GitLab Pages", "hosting">>,
  <<<<".", "pages", ".", "dev">>, "Cloudflare Pages", "hosting">>,
  <<<<".", "workers", ".", "dev">>, "Cloudflare Workers", "hosting">>,
  <<<<".", "deno", ".", "dev">>, "Deno Deploy", "hosting">>,
  <<<<".", "squarespace", ".", "com">>, "Squarespace", "hosting">>,
  <<<<".", "wixsite", ".", "com">>, "Wix", "hosting">>,
  <<<<".", "myshopify", ".", "com">>, "Shopify", "hosting">>,
  <<<<".", "shopifypreview", ".", "com">>, "Shopify", "hosting">>,
  <<<<".", "wordpress", ".", "com">>, "WordPress.com", "hosting">>,
  <<<<".", "wpcomstaging", ".", "com">>, "WordPress.com", "hosting">>,
  <<<<".", "pantheonsite", ".", "io">>, "Pantheon", "hosting">>,
  <<<<".", "wpengine", ".", "com">>, "WP Engine", "hosting">>,
  <<<<".", "kinsta", ".", "cloud">>, "Kinsta", "hosting">>,
  <<<<".", "incapdns", ".", "net">>, "Imperva Incapsula", "security">>,
  <<<<".", "impervadns", ".", "net">>, "Imperva", "security">>,
  <<<<".", "sucuri", ".", "net">>, "Sucuri", "security">> >>

CDN_IP_PREFIXES == <<
  <<<<"104", ".", "16", ".">>, "Cloudflare", "cdn">>,
  <<<<"104", ".", "17", ".">>, "Cloudflare", "cdn">>,
  <<<<"104", ".", "18", ".">>, "Cloudflare", "cdn">>,
  <<<<"104", ".", "19", ".">>, "Cloudflare", "cdn">>,
  <<<<"104", ".", "20", ".">>, "Cloudflare", "cdn">>,
  <<<<"104", ".", "21", ".">>, "Cloudflare", "cdn">>,
  <<<<"104", ".", "22", ".">>, "Cloudflare", "cdn">>,
  <<<<"104", ".", "23", ".">>, "Cloudflare", "cdn">>,
  <<<<"104", ".", "24", ".">>, "Cloudflare", "cdn">>,
  <<<<"104", ".", "25", ".">>, "Cloudflare", "cdn">>,
  <<<<"104", ".", "26", ".">>, "Cloudflare", "cdn">>,
  <<<<"104", ".", "27", ".">>, "Cloudflare", "cdn">>,
  <<<<"172", ".", "64", ".">>, "Cloudflare", "cdn">>,
  <<<<"172", ".", "65", ".">>, "Cloudflare", "cdn">>,
  <<<<"172", ".", "66", ".">>, "Cloudflare", "cdn">>,
  <<<<"172", ".", "67", ".">>, "Cloudflare", "cdn">>,
  <<<<"173", ".", "245", ".">>, "Cloudflare", "cdn">>,
  <<<<"103", ".", "21", ".">>, "Cloudflare", "cdn">>,
  <<<<"103", ".", "22", ".">>, "Cloudflare", "cdn">>,
  <<<<"103", ".", "31", ".">>, "Cloudflare", "cdn">>,
  <<<<"141", ".", "101", ".">>, "Cloudflare", "cdn">>,
  <<<<"108", ".", "162", ".">>, "Cloudflare", "cdn">>,
  <<<<"190", ".", "93", ".">>, "Cloudflare", "cdn">>,
  <<<<"188", ".", "114", ".">>, "Cloudflare", "cdn">>,
  <<<<"197", ".", "234", ".">>, "Cloudflare", "cdn">>,
  <<<<"198", ".", "41", ".">>, "Cloudflare", "cdn">>,
  <<<<"162", ".", "158", ".">>, "Cloudflare", "cdn">>,
  <<<<"131", ".", "0", ".", "72", ".">>, "Cloudflare", "cdn">>,
  <<<<"13", ".", "32", ".">>, "Amazon CloudFront", "cdn">>,
  <<<<"13", ".", "33", ".">>, "Amazon CloudFront", "cdn">>,
  <<<<"13", ".", "35", ".">>, "Amazon CloudFront", "cdn">>,
  <<<<"13", ".", "224", ".">>, "Amazon CloudFront", "cdn">>,
  <<<<"13", ".", "225", ".">>, "Amazon CloudFront", "cdn">>,
  <<<<"13", ".", "226", ".">>, "Amazon CloudFront", "cdn">>,
  <<<<"13", ".", "227", ".">>, "Amazon CloudFront", "cdn">>,
  <<<<"13", ".", "249", ".">>, "Amazon CloudFront", "cdn">>,
  <<<<"18", ".", "64", ".">>, "Amazon CloudFront", "cdn">>,
  <<<<"18", ".", "154", ".">>, "Amazon CloudFront", "cdn">>,
  <<<<"18", ".", "160", ".">>, "Amazon CloudFront", "cdn">>,
  <<<<"18", ".", "164", ".">>, "Amazon CloudFront", "cdn">>,
  <<<<"18", ".", "165", ".">>, "Amazon CloudFront", "cdn">>,
  <<<<"18", ".", "172", ".">>, "Amazon CloudFront", "cdn">>,
  <<<<"52", ".", "84", ".">>, "Amazon CloudFront", "cdn">>,
  <<<<"52", ".", "85", ".">>, "Amazon CloudFront", "cdn">>,
  <<<<"54", ".", "182", ".">>, "Amazon CloudFront", "cdn">>,
  <<<<"54", ".", "192", ".">>, "Amazon CloudFront", "cdn">>,
  <<<<"54", ".", "230", ".">>, "Amazon CloudFront", "cdn">>,
  <<<<"54", ".", "239", ".", "128", ".">>, "Amazon CloudFront", "cdn">>,
  <<<<"54", ".", "239", ".", "192", ".">>, "Amazon CloudFront", "cdn">>,
  <<<<"70", ".", "132", ".">>, "Amazon CloudFront", "cdn">>,
  <<<<"99", ".", "84", ".">>, "Amazon CloudFront", "cdn">>,
  <<<<"99", ".", "86", ".">>, "Amazon CloudFront", "cdn">>,
  <<<<"143", ".", "204", ".">>, "Amazon CloudFront", "cdn">>,
  <<<<"204", ".", "246", ".">>, "Amazon CloudFront", "cdn">>,
  <<<<"205", ".", "251", ".">>, "Amazon CloudFront", "cdn">>,
  <<<<"216", ".", "137", ".">>, "Amazon CloudFront", "cdn">>,
  <<<<"151", ".", "101", ".">>, "Fastly", "cdn">>,
  <<<<"199", ".", "232", ".">>, "Fastly", "cdn">>,
  <<<<"76", ".", "76", ".", "21", ".">>, "Vercel", "hosting">> >>

CdnNoteEmpty(signal, type) == <<>>

\* The note of a detection: the signal that fired and what the location means.
CdnNote(signal, type) ==
  <<"Detected by ", signal, ". Location shows ",
    IF type = "cdn" THEN "edge server" ELSE "cloud region", ", not origin.">>

\* pattern.test(hostname): every pattern is a suffix anchored with $ and
\* carries the /i flag.
PatternTest(pattern, hostname) == EndsWith(LowerCase(hostname), pattern)

\* for (... of CDN_HOSTNAME_PATTERNS): the index of the first pattern that
\* matches, 0 when none does.
FirstHostnamePattern(hostname) ==
  LET hits == {i \in 1..Len(CDN_HOSTNAME_PATTERNS) :
                 PatternTest(CDN_HOSTNAME_PATTERNS[i][1], hostname)}
  IN IF hits = {} THEN 0 ELSE CHOOSE i \in hits : \A j \in hits : i <= j

\* for (... of CDN_IP_PREFIXES): the index of the first prefix the ip starts
\* with, 0 when none.
FirstIpPrefix(ip) ==
  LET hits == {i \in 1..Len(CDN_IP_PREFIXES) : StartsWith(ip, CDN_IP_PREFIXES[i][1])}
  IN IF hits = {} THEN 0 ELSE CHOOSE i \in hits : \A j \in hits : i <= j

DetectCdnByIpFirst(ip, asn, hostname) ==
  LET h == IF hostname # <<>> THEN FirstHostnamePattern(hostname) ELSE 0
      p == FirstIpPrefix(ip)
  IN IF p # 0
     THEN [isCdn |-> TRUE, provider |-> CDN_IP_PREFIXES[p][2],
           type |-> CDN_IP_PREFIXES[p][3],
           note |-> CdnNote("IP range", CDN_IP_PREFIXES[p][3])]
     ELSE IF h # 0
     THEN [isCdn |-> TRUE, provider |-> CDN_HOSTNAME_PATTERNS[h][2],
           type |-> CDN_HOSTNAME_PATTERNS[h][3],
           note |-> CdnNote("hostname", CDN_HOSTNAME_PATTERNS[h][3])]
     ELSE IF asn # <<>> /\ asn[1] # 0 /\ asn[1] \in DOMAIN CDN_ASNS
     THEN [isCdn |-> TRUE, provider |-> CDN_ASNS[asn[1]].name,
           type |-> CDN_ASNS[asn[1]].type,
           note |-> CdnNote("ASN", CDN_ASNS[asn[1]].type)]
     ELSE [isCdn |-> FALSE]

\* detectCdn(ip, asn, hostname).  asn is <<>> (undefined) or <<n>>; hostname is
\* <<>> when undefined or empty.
DetectCdn(ip, asn, hostname) ==
  LET h == IF hostname # <<>> THEN FirstHostnamePattern(hostname) ELSE 0
      p == FirstIpPrefix(ip)
  IN IF asn # <<>> /\ asn[1] # 0 /\ asn[1] \in DOMAIN CDN_ASNS
     THEN [isCdn |-> TRUE, provider |-> CDN_ASNS[asn[1]].name,
           type |-> CDN_ASNS[asn[1]].type,
           note |-> CdnNote("ASN", CDN_ASNS[asn[1]].type)]
     ELSE IF h # 0
     THEN [isCdn |-> TRUE, provider |-> CDN_HOSTNAME_PATTERNS[h][2],
           type |-> CDN_HOSTNAME_PATTERNS[h][3],
           note |-> CdnNote("hostname", CDN_HOSTNAME_PATTERNS[h][3])]
     ELSE IF p # 0
     THEN [isCdn |-> TRUE, provider |-> CDN_IP_PREFIXES[p][2],
           type |-> CDN_IP_PREFIXES[p][3],
           note |-> CdnNote("IP range", CDN_IP_PREFIXES[p][3])]
     ELSE [isCdn |-> FALSE]

----------------------------------------------------------------------------
(* The inputs and the external collaborators *)

LIT_V4 == Dot4("1", "1", "1", "1")
HOST_PLAIN == <<"example", ".", "com">>
HOST_CDN == <<"d1", ".", "CLOUDFRONT", ".", "net">>

\* The strings a caller passes as input.
InputSet == {LIT_V4, V6_GOOGLE, HOST_PLAIN, HOST_CDN}

A_FIRST == Dot4("104", "16", "1", "1")
A_SECOND == Dot4("93", "184", "216", "34")

\* resolve4 / resolve6: the promise rejects, or resolves to a list of addresses.
Resolve4Outcomes ==
  {[throws |-> TRUE, addresses |-> <<>>]} \cup
  {[throws |-> FALSE, addresses |-> a] : a \in {<<>>, <<A_FIRST>>, <<A_SECOND, A_FIRST>>}}

Resolve6Outcomes ==
  {[throws |-> TRUE, addresses |-> <<>>]} \cup
  {[throws |-> FALSE, addresses |-> a] : a \in {<<>>, <<V6_CLOUDFLARE, V6_GOOGLE>>}}

\* The configured provider; "bogus" stands for any string outside ProviderType.
ProviderTypes == {"local", "ipinfo", "auto"}
ProviderValues == ProviderTypes \cup {"bogus"}

\* The org strings of the remote service: "AS13335 Cloudflare, Inc.",
\* "AS64500 Example Net", "Example ISP", "AS13335" without a name, the
\* lower-case "as13335 Cloudflare, Inc.", and '' for a body without org.
OrgStrings ==
  { <<>>,
    <<"AS13335", " ", "Cloudflare, Inc.">>,
    <<"AS64500", " ", "Example Net">>,
    <<"Example ISP">>,
    <<"AS13335">>,
    <<"as13335", " ", "Cloudflare, Inc.">> }

\* The autonomous-system numbers that occur in the model's databases and org strings.
AsnUniverse == {13335, 64500}

\* One fetch of the remote service: a response with a status, a 200 response
\* whose body cannot be parsed, a 200 response with a JSON body {ip, org?},
\* a network error, or the abort of the request after TIMEOUT_MS.
FetchOutcomes(ip) ==
  {[kind |-> "status", status |-> s] : s \in {429, 404, 503}} \cup
  {[kind |-> k] : k \in {"network error", "timeout", "bad json"}} \cup
  {[kind |-> "ok", ip |-> i, org |-> o] : i \in {ip, A_SECOND}, o \in OrgStrings}

\* cityReader.get(ip): throws, finds nothing, or finds a record.
CityGetOutcomes == {"throws", "absent", "found"}

\* asnReader.get(ip): nothing, or a record {autonomous_system_number, ..._organization}.
AsnGetOutcomes ==
  {<<>>} \cup {<<[asn |-> n, org |-> <<"Org of AS", ToString(n)>>]>> : n \in AsnUniverse}

\* The answer to query k: the one already given, or any of outs.
Answers(k, outs) == IF k \in DOMAIN world THEN {world[k]} ELSE outs

Learn(k, ans) == IF k \in DOMAIN world THEN world ELSE world @@ (k :> ans)

Key(kind, arg, n) == <<kind, arg, n>>

----------------------------------------------------------------------------
(* Results and error strings.  An error is its fixed text and the part that  *)
(* is interpolated into it; an absent optional field is an absent field.     *)

Err(msg, arg) == [msg |-> msg, arg |-> arg]

CouldNotResolveBare(input) == Err("Could not resolve", <<>>)

CouldNotResolve(input) == Err("Could not resolve: ", input)
FailedToResolve == Err("Failed to resolve IP", <<>>)
DbNotFoundAsIpNotFound == Err("IP not found in database", <<>>)
DbNotFound == Err("GeoLite2 database not found. Run: geovet db update", <<>>)
IpNotFound == Err("IP not found in database", <<>>)
LookupFailed == Err("Lookup failed: ", <<"Unknown ip address">>)
RateLimitedAsApiError == Err("API error: ", <<"429">>)
RateLimited ==
  Err("Rate limit exceeded. Consider using --provider local or set IPINFO_TOKEN", <<>>)
ApiErrorText(status) == <<"API error: ", ToString(status)>>
ApiError(status) == Err("API error: ", <<ToString(status)>>)
RequestFailed(what) == Err("Request failed: ", what)

\* The message of the error a failed fetch throws.
ErrorMessage(kind) ==
  IF kind = "timeout" THEN <<"This operation was aborted">>
  ELSE IF kind = "bad json" THEN <<"Unexpected token < in JSON">>
  ELSE <<"fetch failed">>

UnresolvedWithoutError(input, err) ==
  [input |-> input, ip |-> <<>>, geo |-> [ip |-> <<>>], provider |-> options.provider]

\* lookup's result when the input could not be resolved.
UnresolvedResult(input, err) ==
  [input |-> input, ip |-> <<>>, geo |-> [ip |-> <<>>],
   provider |-> options.provider, error |-> err]

ProviderErrorAsLocal(name, ip, err) ==
  [input |-> ip, ip |-> ip, geo |-> [ip |-> ip], provider |-> "local", error |-> err]

ProviderErrorDropped(name, ip, err) ==
  [input |-> ip, ip |-> ip, geo |-> [ip |-> ip], provider |-> name]

\* The error result of a provider: {input: ip, ip, geo: {ip}, provider, error}.
ProviderError(name, ip, err) ==
  [input |-> ip, ip |-> ip, geo |-> [ip |-> ip], provider |-> name, error |-> err]

LocalFoundAsnRequired(ip, asnResult) ==
  IF asnResult = <<>>
  THEN ProviderError("local", ip, IpNotFound)
  ELSE [input |-> ip, ip |-> ip, geo |-> [ip |-> ip], provider |-> "local",
        network |-> [asn |-> asnResult[1].asn, org |-> asnResult[1].org]]

\* The local provider's result for a record found in the city database.
LocalFound(ip, asnResult) ==
  LET r == [input |-> ip, ip |-> ip, geo |-> [ip |-> ip], provider |-> "local"]
  IN IF asnResult # <<>>
     THEN r @@ [network |-> [asn |-> asnResult[1].asn, org |-> asnResult[1].org]]
     ELSE r

\* /^AS(\d+)\s+(.*)$/ on the org string: <<n>> when it starts with AS<digits>
\* followed by white space, <<>> otherwise.
OrgAsn(org) ==
  IF /\ Len(org) >= 2
     /\ org[2] = " "
     /\ \E n \in AsnUniverse : org[1] = "AS" \o ToString(n)
  THEN <<CHOOSE n \in AsnUniverse : org[1] = "AS" \o ToString(n)>>
  ELSE <<>>

ParseOrgWhole(org) == IF org = <<>> THEN <<>> ELSE <<[org |-> org]>>

\* The network field the ipinfo provider derives from data.org; <<>> when undefined.
ParseOrg(org) ==
  IF org = <<>> THEN <<>>
  ELSE IF OrgAsn(org) # <<>>
       THEN <<[asn |-> OrgAsn(org)[1], org |-> SubSeq(org, 3, Len(org))]>>
       ELSE <<[org |-> org]>>

IpinfoFoundAsError(ip, body) ==
  ProviderError("ipinfo", ip, RequestFailed(<<"fetch failed">>))

\* The ipinfo provider's result for a parsed 200 body.
IpinfoFound(ip, body) ==
  LET r == [input |-> ip, ip |-> body.ip, geo |-> [ip |-> body.ip],
            provider |-> "ipinfo"]
  IN IF ParseOrg(body.org) # <<>> THEN r @@ [network |-> ParseOrg(body.org)[1]] ELSE r

HasError(r) == "error" \in DOMAIN r

\* result.network?.asn, as <<>> or <<n>>.
AsnOf(r) ==
  IF "network" \in DOMAIN r /\ "asn" \in DOMAIN r.network
  THEN <<r.network.asn>> ELSE <<>>

\* The hostname lookup hands to detectCdn: the input unless it is a literal IP.
HostnameArgAlways(input) == input

\* isIP(input) ? undefined : input
HostnameArg(input) == IF IsIP(input) # 0 THEN <<>> ELSE input

WithProviderInput(r, input) == r

\* { ...providerResult, input }
WithInput(r, input) == [r EXCEPT !.input = input]

ClassifiesAlways(r) == TRUE

\* if (!result.error): whether lookup classifies the provider's result.
Classifies(r) == ~HasError(r)

AttachesAlways(cdnInfo) == TRUE

\* if (cdnInfo.isCdn): whether the classification is attached to the result.
Attaches(cdnInfo) == cdnInfo.isCdn

\* lookup's "Detect CDN" block applied to the provider's result.
WithCdn(r, input) ==
  LET cdnInfo == DetectCdn(r.ip, AsnOf(r), HostnameArg(input))
  IN IF Classifies(r) /\ Attaches(cdnInfo) THEN r @@ [cdn |-> cdnInfo] ELSE r

----------------------------------------------------------------------------
(* Positions and locals of one lookup call *)

\* lookup(input) up to its first suspension: resolveToIp returns at once
\* for a literal IP and awaits resolve4 otherwise.
BeginLookup(i, input) ==
  [idx |-> i, input |-> input,
   pc |-> IF IsIP(input) # 0 THEN "resolved" ELSE "resolve4",
   ip |-> IF IsIP(input) # 0 THEN input ELSE <<>>,
   error |-> <<>>, caller |-> "", available |-> FALSE,
   attempt |-> 0, lastError |-> <<>>,
   log |-> IF IsIP(input) # 0 THEN <<>> ELSE <<"resolve4">>]

\* initReaders() up to its first suspension, called from isAvailable or lookup.
EnterInitReaders(me, caller) ==
  IF readers.city
  THEN [me EXCEPT !.pc = "initReaders returns", !.caller = caller, !.available = TRUE]
  ELSE [me EXCEPT !.pc = "fileExists city", !.caller = caller]

\* createIpinfoProvider(apiKey).lookup(ip) up to the first fetch.
EnterIpinfo(me) ==
  [me EXCEPT !.pc = "fetch", !.attempt = 0, !.lastError = <<>>,
             !.log = @ \o <<"ipinfo.lookup", "fetch">>]

Logged(me, what) == [me EXCEPT !.log = Append(@, what)]

TotalSoFar == completed + 1

\* const total = items.length
Total == Len(inputs)

Move(w, me) ==
  /\ workers' = [workers EXCEPT ![w] = me]
  /\ UNCHANGED <<entry, inputs, options, batch, index, completed, results, progress, last, detect, cli>>

SlotByCompletion(w) == completed + 1

\* results[currentIndex]: the slot a worker stores its lookup's result in.
ResultSlot(w) == workers[w].idx

NextIndexStride(w) == workers[w].idx + Cardinality(DOMAIN workers)

NextIndexStale(w) == index

\* const currentIndex = index++: the index a worker claims when it comes
\* round its loop, the next one of the counter all workers share.
NextIndex(w) == index + 1

\* The lookup's promise resolves with r.  Under lookupBatch the worker stores
\* it, reports progress and takes the next unclaimed index, all in one turn.
Complete(w, r, log) ==
  /\ last' = [idx |-> workers[w].idx, input |-> workers[w].input,
              ip |-> workers[w].ip, result |-> r, log |-> log,
              hostname |-> HostnameArg(workers[w].input)]
  /\ IF entry = "lookup"
     THEN /\ workers' = [workers EXCEPT ![w].pc = "returned", ![w].log = log]
          /\ UNCHANGED <<batch, index, completed, results, progress>>
     ELSE /\ results' = [results EXCEPT ![ResultSlot(w)] = <<r>>]
          /\ completed' = completed + 1
          /\ progress' = Append(progress, <<completed + 1, Total>>)
          /\ IF NextIndex(w) <= Len(inputs)
             THEN /\ index' = NextIndex(w)
                  /\ workers' = [workers EXCEPT
                                   ![w] = BeginLookup(NextIndex(w), inputs[NextIndex(w)])]
             ELSE /\ index' = index
                  /\ workers' = [workers EXCEPT ![w].pc = "exited", ![w].log = log]
          /\ UNCHANGED batch
  /\ UNCHANGED <<entry, inputs, options, detect, cli>>

\* The lookup's promise rejects: the worker's promise rejects with it, and so
\* does Promise.all, whatever the other workers are doing.
Reject(w) ==
  /\ workers' = [workers EXCEPT ![w].pc = "rejected"]
  /\ batch' = IF batch = "running" THEN "threw" ELSE batch
  /\ UNCHANGED <<entry, inputs, options, index, completed, results, progress, last, detect, cli>>

\* lookup after the provider returned pr: the spread, the CDN block, the return.
FinishLookup(w, pr) ==
  LET me == workers[w]
      r == WithCdn(WithInput(pr, me.input), me.input)
  IN Complete(w, r, IF Classifies(pr) THEN Append(me.log, "detectCdn") ELSE me.log)

----------------------------------------------------------------------------
(* resolveToIp *)

LastAddress(addresses) == addresses[Len(addresses)]

\* addresses[0]
FirstAddress(addresses) == addresses[1]

\* resolve4 settles.  A non-empty answer gives its first address; a rejection
\* leads to resolve6; an empty answer leaves the try block and fails.
Resolve4Returns(w) ==
  LET me == workers[w]
      k == Key("resolve4", me.input, 0)
  IN /\ w \in DOMAIN workers
     /\ me.pc = "resolve4"
     /\ \E ans \in Answers(k, Resolve4Outcomes) :
          /\ world' = Learn(k, ans)
          /\ IF ans.throws
             THEN Move(w, Logged([me EXCEPT !.pc = "resolve6"], "resolve6"))
             ELSE IF Len(ans.addresses) > 0
             THEN Move(w, [me EXCEPT !.pc = "resolved", !.ip = FirstAddress(ans.addresses)])
             ELSE Move(w, [me EXCEPT !.pc = "resolved",
                                     !.error = <<CouldNotResolve(me.input)>>])
     /\ UNCHANGED readers

\* resolve6 settles (it was tried because resolve4 rejected).
Resolve6Returns(w) ==
  LET me == workers[w]
      k == Key("resolve6", me.input, 0)
  IN /\ w \in DOMAIN workers
     /\ me.pc = "resolve6"
     /\ \E ans \in Answers(k, Resolve6Outcomes) :
          /\ world' = Learn(k, ans)
          /\ IF ~ans.throws /\ Len(ans.addresses) > 0
             THEN Move(w, [me EXCEPT !.pc = "resolved", !.ip = FirstAddress(ans.addresses)])
             ELSE Move(w, [me EXCEPT !.pc = "resolved",
                                     !.error = <<CouldNotResolve(me.input)>>])
     /\ UNCHANGED readers

----------------------------------------------------------------------------
(* lookup: after resolveToIp *)

\* lookup continues with {ip, error}: the unresolved result, or the provider
\* chosen by options.provider (getProvider throws on an unknown one).
LookupResolved(w) ==
  LET me == workers[w]
  IN /\ w \in DOMAIN workers
     /\ me.pc = "resolved"
     /\ IF me.error # <<>> \/ me.ip = <<>>
        THEN Complete(w, UnresolvedResult(me.input,
                           IF me.error # <<>> THEN me.error[1] ELSE FailedToResolve),
                      me.log)
        ELSE IF options.provider = "auto"
        THEN Move(w, EnterInitReaders(Logged(me, "local.isAvailable"), "isAvailable"))
        ELSE IF options.provider = "local"
        THEN Move(w, EnterInitReaders(Logged(me, "local.lookup"), "lookup"))
        ELSE IF options.provider = "ipinfo"
        THEN Move(w, EnterIpinfo(me))
        ELSE Reject(w)
     /\ UNCHANGED <<readers, world>>

----------------------------------------------------------------------------
(* providers/local: initReaders, isAvailable, lookup *)

InitReadersDone(me, ok) == [me EXCEPT !.pc = "initReaders returns", !.available = ok]

\* await fileExists(cityDbPath)
FileExistsCity(w) ==
  LET me == workers[w]
      k == Key("fileExists", <<"GeoLite2-City.mmdb">>, 0)
  IN /\ w \in DOMAIN workers
     /\ me.pc = "fileExists city"
     /\ \E ans \in Answers(k, BOOLEAN) :
          /\ world' = Learn(k, ans)
          /\ Move(w, IF ans THEN [me EXCEPT !.pc = "readFile city"]
                            ELSE InitReadersDone(me, FALSE))
     /\ UNCHANGED readers

\* await readFile(cityDbPath); cityReader = new Reader(buffer)
ReadFileCity(w) ==
  LET me == workers[w]
      k == Key("readFile", <<"GeoLite2-City.mmdb">>, 0)
  IN /\ w \in DOMAIN workers
     /\ me.pc = "readFile city"
     /\ \E ans \in Answers(k, {"ok", "throws"}) :
          /\ world' = Learn(k, ans)
          /\ IF ans = "ok"
             THEN /\ readers' = [readers EXCEPT !.city = TRUE]
                  /\ Move(w, [me EXCEPT !.pc = "fileExists asn"])
             ELSE /\ UNCHANGED readers
                  /\ Move(w, InitReadersDone(me, FALSE))

\* await fileExists(asnDbPath)
FileExistsAsn(w) ==
  LET me == workers[w]
      k == Key("fileExists", <<"GeoLite2-ASN.mmdb">>, 0)
  IN /\ w \in DOMAIN workers
     /\ me.pc = "fileExists asn"
     /\ \E ans \in Answers(k, BOOLEAN) :
          /\ world' = Learn(k, ans)
          /\ Move(w, IF ans THEN [me EXCEPT !.pc = "readFile asn"]
                            ELSE InitReadersDone(me, TRUE))
     /\ UNCHANGED readers

\* await readFile(asnDbPath); asnReader = new Reader(buffer)
ReadFileAsn(w) ==
  LET me == workers[w]
      k == Key("readFile", <<"GeoLite2-ASN.mmdb">>, 0)
  IN /\ w \in DOMAIN workers
     /\ me.pc = "readFile asn"
     /\ \E ans \in Answers(k, {"ok", "throws"}) :
          /\ world' = Learn(k, ans)
          /\ IF ans = "ok"
             THEN /\ readers' = [readers EXCEPT !.asn = TRUE]
                  /\ Move(w, InitReadersDone(me, TRUE))
             ELSE /\ UNCHANGED readers
                  /\ Move(w, InitReadersDone(me, FALSE))

LocalReturnedFallback(w, pr) ==
  IF HasError(pr)
  THEN Move(w, EnterIpinfo(workers[w]))
  ELSE FinishLookup(w, pr)

LocalReturnedNoFallback(w, pr) == FinishLookup(w, pr)

\* lookup after the local provider returned pr: under 'auto' an error falls
\* back to the ipinfo provider; otherwise pr is the provider's result.
LocalReturned(w, pr) ==
  IF options.provider = "auto" /\ HasError(pr)
  THEN Move(w, EnterIpinfo(workers[w]))
  ELSE FinishLookup(w, pr)

\* initReaders returns to isAvailable (and so to lookup's 'auto' branch), or
\* to the local provider's lookup, which then reads both readers.
InitReadersReturns(w) ==
  LET me == workers[w]
      kc == Key("city.get", me.ip, 0)
      ka == Key("asn.get", me.ip, 0)
  IN /\ w \in DOMAIN workers
     /\ me.pc = "initReaders returns"
     /\ UNCHANGED readers
     /\ IF me.caller = "isAvailable"
        THEN /\ UNCHANGED world
             /\ IF me.available
                THEN Move(w, EnterInitReaders(Logged(me, "local.lookup"), "lookup"))
                ELSE Move(w, EnterIpinfo(me))
        ELSE IF ~me.available \/ ~readers.city
        THEN /\ UNCHANGED world
             /\ LocalReturned(w, ProviderError("local", me.ip, DbNotFound))
        ELSE \E c \in Answers(kc, CityGetOutcomes) :
               IF c = "throws"
               THEN /\ world' = Learn(kc, c)
                    /\ LocalReturned(w, ProviderError("local", me.ip, LookupFailed))
               ELSE \E a \in (IF readers.asn THEN Answers(ka, AsnGetOutcomes)
                                             ELSE {<<>>}) :
                      /\ world' = IF readers.asn
                                  THEN (ka :> a) @@ Learn(kc, c)
                                  ELSE Learn(kc, c)
                      /\ IF c = "absent"
                         THEN LocalReturned(w, ProviderError("local", me.ip, IpNotFound))
                         ELSE LocalReturned(w, LocalFound(me.ip, a))

----------------------------------------------------------------------------
(* providers/ipinfo: lookup *)

\* Retry: remember the error, sleep RETRY_DELAY_MS * (attempt + 1), fetch again.
Retry(me, err) ==
  Logged([me EXCEPT !.attempt = @ + 1, !.lastError = err], "fetch")

RetriesStatusAny(status, attempt) == attempt < MAX_RETRIES

\* if (response.status >= 500 && attempt < MAX_RETRIES): retry on 5xx errors
RetriesStatus(status, attempt) == status >= 500 /\ attempt < MAX_RETRIES

\* One fetchWithTimeout settles.
FetchReturns(w) ==
  LET me == workers[w]
      k == Key("fetch", me.ip, me.attempt)
  IN /\ w \in DOMAIN workers
     /\ me.pc = "fetch"
     /\ UNCHANGED readers
     /\ \E ans \in Answers(k, FetchOutcomes(me.ip)) :
          /\ world' = Learn(k, ans)
          /\ IF ans.kind = "status"
             THEN IF ans.status = 429
                  THEN FinishLookup(w, ProviderError("ipinfo", me.ip, RateLimited))
                  ELSE IF RetriesStatus(ans.status, me.attempt)
                  THEN Move(w, Retry(me, ApiErrorText(ans.status)))
                  ELSE FinishLookup(w, ProviderError("ipinfo", me.ip, ApiError(ans.status)))
             ELSE IF ans.kind = "ok"
             THEN FinishLookup(w, IpinfoFound(me.ip, ans))
             ELSE IF me.attempt < MAX_RETRIES
             THEN Move(w, Retry(me, IF ans.kind = "timeout"
                                    THEN <<"Request timeout">>
                                    ELSE ErrorMessage(ans.kind)))
             ELSE FinishLookup(w, ProviderError("ipinfo", me.ip,
                    RequestFailed(IF me.lastError # <<>> THEN me.lastError
                                  ELSE ErrorMessage(ans.kind))))

----------------------------------------------------------------------------
(* lookupBatch / parallelMap *)

Min(a, b) == IF a <= b THEN a ELSE b

EffectiveConcurrencySerial ==
  IF "concurrency" \in DOMAIN options THEN options.concurrency ELSE 1

\* options.concurrency ?? 50 for 'local', ?? 10 otherwise
EffectiveConcurrency ==
  IF "concurrency" \in DOMAIN options THEN options.concurrency
  ELSE IF options.provider = "local" THEN DEFAULT_CONCURRENCY_LOCAL
  ELSE DEFAULT_CONCURRENCY_REMOTE

PoolSizePerItem == Len(inputs)

\* Math.min(concurrency, items.length): the number of workers parallelMap starts.
PoolSize == Min(EffectiveConcurrency, Len(inputs))

\* lookupBatch is called: parallelMap creates the results array and starts
\* Math.min(concurrency, items.length) workers, each of which claims an index
\* before the next one starts.  Array(n) throws a RangeError for n < 0.
StartBatch ==
  LET n == PoolSize
  IN /\ entry \in {"lookupBatch", "cli"}
     /\ batch = "called"
     /\ IF n < 0
        THEN /\ batch' = "threw"
             /\ UNCHANGED <<index, workers>>
        ELSE /\ batch' = "running"
             /\ index' = n
             /\ workers' = [k \in 1..n |-> BeginLookup(k, inputs[k])]
     /\ UNCHANGED <<entry, inputs, options, completed, results, progress, readers, world,
                     last, detect, cli>>

WorkersDoneAny == \E w \in DOMAIN workers : workers[w].pc = "exited"

\* Promise.all(workers) resolves: every worker has left its loop.
WorkersDone == \A w \in DOMAIN workers : workers[w].pc = "exited"

\* await Promise.all(workers); return results
ReturnBatch ==
  /\ batch = "running"
  /\ WorkersDone
  /\ batch' = "returned"
  /\ UNCHANGED <<entry, inputs, options, index, completed, results, progress, workers,
                 readers, world, last, detect, cli>>

----------------------------------------------------------------------------
(* Specifications *)

\* The workers a batch can have: Math.min(concurrency, items.length) of them.
WorkerIds == 1..MaxInputs

LookupStep ==
  \/ \E w \in WorkerIds : Resolve4Returns(w)
  \/ \E w \in WorkerIds : Resolve6Returns(w)
  \/ \E w \in WorkerIds : LookupResolved(w)
  \/ \E w \in WorkerIds : FileExistsCity(w)
  \/ \E w \in WorkerIds : ReadFileCity(w)
  \/ \E w \in WorkerIds : FileExistsAsn(w)
  \/ \E w \in WorkerIds : ReadFileAsn(w)
  \/ \E w \in WorkerIds : InitReadersReturns(w)
  \/ \E w \in WorkerIds : FetchReturns(w)

\* The states the readers of the local provider can be in between lookups.
ReaderStates ==
  {[city |-> FALSE, asn |-> FALSE], [city |-> TRUE, asn |-> FALSE],
   [city |-> TRUE, asn |-> TRUE]}

\* The CLI is not running.
NoRun == [run |-> FALSE]

\* No direct call of detectCdn is under way.
NoCall == [called |-> FALSE]

\* One call lookup(input, {provider}).
Init ==
  /\ entry = "lookup"
  /\ \E input \in InputSet : /\ inputs = <<input>>
                             /\ workers = (1 :> BeginLookup(1, input))
  /\ options \in [provider : ProviderValues]
  /\ batch = "none"
  /\ index = 0 /\ completed = 0 /\ results = <<>> /\ progress = <<>>
  /\ readers \in ReaderStates
  /\ world = <<>>
  /\ last = [idx |-> 0]
  /\ detect = NoCall
  /\ cli = NoRun

Next == LookupStep

Spec == Init /\ [][Next]_vars

ConcurrencyValues == (-1)..MaxConcurrency

BatchInputs == UNION {[1..n -> InputSet] : n \in 0..MaxInputs}

\* The hostnames and addresses a lookup of the model can ask about.
Hostnames == {i \in InputSet : IsIP(i) = 0}
Addresses ==
  {i \in InputSet : IsIP(i) # 0} \cup {A_FIRST, A_SECOND, V6_CLOUDFLARE, V6_GOOGLE}

QueryKeys ==
  {Key(q, h, 0) : q \in {"resolve4", "resolve6"}, h \in Hostnames} \cup
  {Key(q, <<f>>, 0) : q \in {"fileExists", "readFile"},
                      f \in {"GeoLite2-City.mmdb", "GeoLite2-ASN.mmdb"}} \cup
  {Key(q, a, 0) : q \in {"city.get", "asn.get"}, a \in Addresses} \cup
  {Key("fetch", a, n) : a \in Addresses, n \in 0..MAX_RETRIES}

\* A world in which the collaborators are up: every name resolves (one of
\* them over AAAA only), both database files load, one address is missing
\* from the city database, and the remote service answers after a 503.
WorldUp ==
  [k \in QueryKeys |->
     CASE k[1] = "resolve4" ->
            IF k[2] = HOST_CDN THEN [throws |-> TRUE, addresses |-> <<>>]
            ELSE [throws |-> FALSE, addresses |-> <<A_SECOND, A_FIRST>>]
       [] k[1] = "resolve6" ->
            [throws |-> FALSE, addresses |-> <<V6_CLOUDFLARE, V6_GOOGLE>>]
       [] k[1] = "fileExists" -> TRUE
       [] k[1] = "readFile" -> "ok"
       [] k[1] = "city.get" -> IF k[2] = LIT_V4 THEN "absent" ELSE "found"
       [] k[1] = "asn.get" ->
            IF k[2] = A_SECOND
            THEN <<[asn |-> 13335, org |-> <<"Org of AS", "13335">>]>>
            ELSE <<>>
       [] k[1] = "fetch" ->
            IF k[3] = 0 THEN [kind |-> "status", status |-> 503]
            ELSE [kind |-> "ok", ip |-> k[2],
                  org |-> <<"AS13335", " ", "Cloudflare, Inc.">>]]

\* A world in which they are mostly down: one name has no A record and the
\* other resolves nowhere, the city database is missing, and the remote
\* service limits the rate for one address and answers the others only on
\* the last attempt.
WorldDown ==
  [k \in QueryKeys |->
     CASE k[1] = "resolve4" ->
            IF k[2] = HOST_CDN THEN [throws |-> TRUE, addresses |-> <<>>]
            ELSE [throws |-> FALSE, addresses |-> <<>>]
       [] k[1] = "resolve6" -> [throws |-> TRUE, addresses |-> <<>>]
       [] k[1] = "fileExists" -> k[2] # <<"GeoLite2-City.mmdb">>
       [] k[1] = "readFile" -> "throws"
       [] k[1] = "city.get" -> "absent"
       [] k[1] = "asn.get" -> <<>>
       [] k[1] = "fetch" ->
            IF k[2] = LIT_V4 THEN [kind |-> "status", status |-> 429]
            ELSE IF k[3] = 0 THEN [kind |-> "timeout"]
            ELSE IF k[3] = 1 THEN [kind |-> "network error"]
            ELSE [kind |-> "ok", ip |-> k[2], org |-> <<"Example ISP">>]]

BatchWorlds == {WorldUp, WorldDown}

\* One call lookupBatch(inputs, {provider, concurrency?}) in a fresh process,
\* against one of the worlds above.
InitBatch ==
  /\ entry = "lookupBatch"
  /\ inputs \in BatchInputs
  /\ options \in [provider : ProviderValues] \cup
                 [provider : ProviderValues, concurrency : ConcurrencyValues]
  /\ batch = "called"
  /\ index = 0 /\ completed = 0 /\ progress = <<>>
  /\ results = [i \in 1..Len(inputs) |-> <<>>]
  /\ workers = <<>>
  /\ readers = [city |-> FALSE, asn |-> FALSE]
  /\ world \in BatchWorlds
  /\ last = [idx |-> 0]
  /\ detect = NoCall
  /\ cli = NoRun

NextBatch ==
  \/ StartBatch
  \/ LookupStep
  \/ ReturnBatch

SpecBatch == InitBatch /\ [][NextBatch]_vars

\* lookupBatch when every individual lookup terminates: each pending DNS
\* query, file operation and fetch settles, and the event loop runs the
\* continuation that waits for it.
SpecBatchFair == InitBatch /\ [][NextBatch]_vars /\ WF_vars(NextBatch)

\* The input whose lookup is slow: its DNS query may stay pending for ever.
SLOW_INPUT == HOST_PLAIN

\* The input lists with one slow input, at any place of the list.
StallInputs ==
  {s \in [1..MaxStallInputs -> {LIT_V4, HOST_CDN, SLOW_INPUT}] :
     Cardinality({i \in 1..MaxStallInputs : s[i] = SLOW_INPUT}) = 1}

\* One call lookupBatch(inputs, {provider, concurrency}) with a provider of
\* the configuration and at least two workers, in a fresh process, against
\* the world in which the collaborators are up.
InitStall ==
  /\ entry = "lookupBatch"
  /\ inputs \in StallInputs
  /\ options \in [provider : ProviderTypes, concurrency : 2..MaxConcurrency]
  /\ batch = "called"
  /\ index = 0 /\ completed = 0 /\ progress = <<>>
  /\ results = [i \in 1..Len(inputs) |-> <<>>]
  /\ workers = <<>>
  /\ readers = [city |-> FALSE, asn |-> FALSE]
  /\ world = WorldUp
  /\ last = [idx |-> 0]
  /\ detect = NoCall
  /\ cli = NoRun

\* A step of the lookup of the slow input: its worker moves.
SlowStep ==
  \E w \in DOMAIN workers :
     /\ workers[w].input = SLOW_INPUT
     /\ workers'[w] # workers[w]

\* Any other step of the batch: the batch starts, the lookup of another
\* input moves on, or the batch returns.
FastStep == NextBatch /\ ~SlowStep

\* lookupBatch with a slow lookup: the batch starts, and the lookups of all
\* inputs but the slow one terminate; the slow one may, or may never.
SpecStall == InitStall /\ [][NextBatch]_vars /\ WF_vars(FastStep)

\* detectCdn called directly.  The addresses and hostnames are those of the
\* tests: dotted-decimal inside and outside the prefix table, colon-hex
\* addresses, hostnames with and without a CDN suffix; the ASNs are absent,
\* 0, some of each category of the table and one outside it.
DetectIps ==
  { A_FIRST, A_SECOND, Dot4("151", "101", "1", "1"), Dot4("76", "76", "21", "21"),
    <<"2606", ":", "4700", ":", "10", ":", ":", "1">>,
    <<"2a04", ":", "4e42", ":", ":", "1">>,
    <<"2600", ":", "9000", ":", "abcd", ":", ":", "1">>,
    V6_GOOGLE }

DetectAsns ==
  {<<>>, <<0>>, <<13335>>, <<54113>>, <<16509>>, <<209366>>, <<19551>>, <<64500>>}

\* For every entry of the pattern list the hostname made of the label x and
\* the entry's suffix: "x.cloudfront.net", "x.cdnjs.cloudflare.com", ...
PatternHostnames ==
  {<<"x">> \o CDN_HOSTNAME_PATTERNS[p][1] : p \in 1..Len(CDN_HOSTNAME_PATTERNS)}

DetectHostnames ==
  { <<>>, HOST_PLAIN, HOST_CDN, <<"x", ".", "fastly", ".", "net">>,
    <<"example", ".", "github", ".", "io">>,
    <<"app", ".", "cloudapp", ".", "azure", ".", "com">> } \cup PatternHostnames

InitDetect ==
  /\ entry = "detectCdn"
  /\ detect \in [called : {TRUE}, ip : DetectIps, asn : DetectAsns,
                  hostname : DetectHostnames, result : {<<>>}]
  /\ inputs = <<>> /\ options = [provider |-> "local"]
  /\ batch = "none"
  /\ index = 0 /\ completed = 0 /\ results = <<>> /\ progress = <<>>
  /\ workers = <<>>
  /\ readers = [city |-> FALSE, asn |-> FALSE]
  /\ world = <<>>
  /\ last = [idx |-> 0]
  /\ cli = NoRun

\* detectCdn returns.
DetectCdnReturns ==
  /\ detect.called
  /\ detect.result = <<>>
  /\ detect' = [detect EXCEPT
                  !.result = <<DetectCdn(detect.ip, detect.asn, detect.hostname)>>]
  /\ UNCHANGED <<entry, inputs, options, batch, index, completed, results, progress,
                 workers, readers, world, last, cli>>

NextDetect == DetectCdnReturns

SpecDetect == InitDetect /\ [][NextDetect]_vars

----------------------------------------------------------------------------
(* cli: the lookup command *)

\* The values handed to -c / --concurrency.
CliConcurrencyArgs == {"0", "-5", "2", "abc"}

\* The decimal numbers parseInt meets in the model.
Decimals == (-5)..DEFAULT_CONCURRENCY_LOCAL

\* parseInt(text, 10): <<n>>, or <<>> for NaN.
ParseInt(text) ==
  IF \E n \in Decimals : ToString(n) = text
  THEN <<CHOOSE n \in Decimals : ToString(n) = text>>
  ELSE <<>>

\* .option('-c, --concurrency <num>', ..., '10'): the option's value.
ConcurrencyOption == IF cli.concurrency = <<>> THEN "10" ELSE cli.concurrency[1]

\* parseInt(options.concurrency, 10) || 10
CliConcurrency ==
  LET n == ParseInt(ConcurrencyOption)
  IN IF n = <<>> \/ n[1] = 0 THEN 10 ELSE n[1]

\* The targets of a run: literal IPs and hostnames given as arguments.
CliTargets ==
  UNION {[1..n -> {LIT_V4, HOST_CDN}] : n \in 0..MaxInputs}

\* geovet lookup [targets...] [-p provider] [-c num]
InitCli ==
  /\ entry = "cli"
  /\ cli \in [run : {TRUE}, provider : ProviderValues,
               concurrency : {<<>>} \cup {<<c>> : c \in CliConcurrencyArgs},
               exit : {<<>>}, stderr : {<<>>}]
  /\ inputs \in CliTargets
  /\ options = [provider |-> cli.provider]
  /\ batch = "cli"
  /\ index = 0 /\ completed = 0 /\ progress = <<>>
  /\ results = [i \in 1..Len(inputs) |-> <<>>]
  /\ workers = <<>>
  /\ readers = [city |-> FALSE, asn |-> FALSE]
  /\ world \in BatchWorlds
  /\ last = [idx |-> 0]
  /\ detect = NoCall

\* The action callback up to its call of lookupBatch: it builds
\* lookupOptions, and exits when there is no target.
CliAction ==
  /\ entry = "cli"
  /\ batch = "cli"
  /\ options' = [provider |-> cli.provider, concurrency |-> CliConcurrency]
  /\ IF Len(inputs) = 0
     THEN /\ batch' = "none"
          /\ cli' = [cli EXCEPT !.exit = <<1>>,
                                !.stderr = <<"No targets specified. Use: geovet lookup <ip|domain>">>]
     ELSE /\ batch' = "called"
          /\ UNCHANGED cli
  /\ UNCHANGED <<entry, inputs, index, completed, results, progress, workers,
                 readers, world, last, detect>>

\* After lookupBatch: the results are printed and the process exits with 1
\* if any of them has an error; a rejection of lookupBatch is not handled
\* by the callback and ends the process with its message.
CliExit ==
  /\ entry = "cli"
  /\ cli.exit = <<>>
  /\ batch \in {"returned", "threw"}
  /\ cli' = IF batch = "returned"
            THEN [cli EXCEPT !.exit =
                    IF \E i \in 1..Len(results) : results[i] # <<>> /\ HasError(results[i][1])
                    THEN <<1>> ELSE <<0>>]
            ELSE [cli EXCEPT !.exit = <<1>>,
                             !.stderr = IF EffectiveConcurrency < 0
                                        THEN <<"RangeError: ", "Invalid array length">>
                                        ELSE <<"Error: ", "Unknown provider: ", options.provider>>]
  /\ UNCHANGED <<entry, inputs, options, batch, index, completed, results, progress,
                 workers, readers, world, last, detect>>

NextCli ==
  \/ CliAction
  \/ StartBatch
  \/ LookupStep
  \/ ReturnBatch
  \/ CliExit

SpecCli == InitCli /\ [][NextCli]_vars

----------------------------------------------------------------------------
(* Properties *)

Range(seq) == {seq[i] : i \in 1..Len(seq)}

\* A lookup has returned; last holds its result.
Returned == last.idx > 0

Answered(k) == k \in DOMAIN world

\* Both resolutions of a hostname input ended without an address.
Unresolvable(input) ==
  /\ IsIP(input) = 0
  /\ Answered(Key("resolve4", input, 0))
  /\ world[Key("resolve4", input, 0)].throws
  /\ Answered(Key("resolve6", input, 0))
  /\ world[Key("resolve6", input, 0)].throws

\* A literal-IP input whose provider lookup fails in this world.
ProviderFails(input) ==
  /\ IsIP(input) # 0
  /\ \/ /\ options.provider = "ipinfo"
        /\ Answered(Key("fetch", input, 0))
        /\ world[Key("fetch", input, 0)] = [kind |-> "status", status |-> 429]
     \/ /\ options.provider = "local"
        /\ Answered(Key("city.get", input, 0))
        /\ world[Key("city.get", input, 0)] = "absent"

\* C1: a batch started with a concurrency of at least 1 returns an array as
\* long as the inputs in which slot i holds the result for inputs[i],
\* whatever the order in which the lookups completed.
C1_IndexStable ==
  (batch = "returned" /\ EffectiveConcurrency >= 1) =>
     /\ DOMAIN results = 1..Len(inputs)
     /\ \A i \in 1..Len(inputs) :
          /\ results[i] # <<>>
          /\ results[i][1].input = inputs[i]

\* C1 witness: two different inputs, two workers, and the first input's
\* lookup was the last one to complete.
C1_Witness ==
  /\ batch = "returned"
  /\ Len(inputs) = 2
  /\ inputs[1] # inputs[2]
  /\ DOMAIN workers = 1..2
  /\ last.idx = 1

\* C2 (as claimed): with a concurrency of 0 or less lookupBatch fails before
\* any lookup: it never runs workers and never returns a results array.
C2_RejectsInvalidConcurrency ==
  (entry = "lookupBatch" /\ EffectiveConcurrency <= 0) =>
     /\ batch \in {"called", "threw"}
     /\ workers = <<>>

\* C3: with a provider of the configuration, no lookup rejects and the batch
\* throws only on a negative concurrency; when it returns, every input has
\* its result, and the inputs that cannot be resolved or whose provider
\* lookup fails have a result with error set.
C3_FailureIsolated ==
  options.provider \in ProviderTypes =>
     /\ \A w \in DOMAIN workers : workers[w].pc # "rejected"
     /\ batch = "threw" => EffectiveConcurrency < 0
     /\ (batch = "returned" /\ EffectiveConcurrency >= 1) =>
          \A i \in 1..Len(inputs) :
             /\ results[i] # <<>>
             /\ Unresolvable(inputs[i]) \/ ProviderFails(inputs[i])
                  => HasError(results[i][1])

\* C3 witness: a returned batch whose first input failed to resolve and
\* whose second input has a result without error.
C3_Witness ==
  /\ batch = "returned"
  /\ Len(inputs) = 2
  /\ Unresolvable(inputs[1])
  /\ results[1] # <<>>
  /\ results[2] # <<>>
  /\ HasError(results[1][1])
  /\ ~HasError(results[2][1])

\* C4 (as claimed): for a literal IP input lookup calls neither resolve4 nor
\* resolve6, and the result's ip is the input, whatever the provider answers.
C4_LiteralIpEchoed ==
  (Returned /\ options.provider \in ProviderTypes /\ IsIP(last.input) # 0) =>
     /\ Range(last.log) \cap {"resolve4", "resolve6"} = {}
     /\ last.result.ip = last.input

\* C5: when resolve4 and resolve6 both reject for a hostname input, the
\* result has an error that contains the input, an empty ip, no network and
\* no cdn field, and lookup called nothing but the two resolutions.
C5_Unresolved ==
  (Returned /\ Unresolvable(last.input)) =>
     /\ HasError(last.result)
     /\ last.result.error.arg = last.input
     /\ last.result.input = last.input
     /\ last.result.ip = <<>>
     /\ last.result.geo.ip = <<>>
     /\ DOMAIN last.result \cap {"network", "cdn"} = {}
     /\ last.log = <<"resolve4", "resolve6">>

\* C5 witness: a lookup returned after both resolutions rejected.
C5_Witness ==
  /\ Returned
  /\ Unresolvable(last.input)
  /\ HasError(last.result)

\* C6 (as claimed): when resolve4 rejects or returns an empty list, lookup
\* attempts resolve6 and uses its first address, without error.
C6_FallsBackToAAAA ==
  LET k4 == Key("resolve4", last.input, 0)
      k6 == Key("resolve6", last.input, 0)
  IN (/\ Returned
      /\ IsIP(last.input) = 0
      /\ Answered(k4)
      /\ world[k4].throws \/ world[k4].addresses = <<>>) =>
        /\ "resolve6" \in Range(last.log)
        /\ Answered(k6)
        /\ (~world[k6].throws /\ world[k6].addresses # <<>>) =>
              /\ last.ip = world[k6].addresses[1]
              /\ ~HasError(last.result)

\* C7: once resolve4 has returned at least one address for a hostname
\* input, the resolved IP is the first of them and resolve6 is not called.
C7_PrefersA ==
  \A w \in DOMAIN workers :
     LET me == workers[w]
         k4 == Key("resolve4", me.input, 0)
     IN (/\ IsIP(me.input) = 0
         /\ me.pc # "resolve4"
         /\ Answered(k4)
         /\ ~world[k4].throws
         /\ world[k4].addresses # <<>>) =>
           /\ me.ip = world[k4].addresses[1]
           /\ "resolve6" \notin Range(me.log)
           /\ ~Answered(Key("resolve6", me.input, 0))

\* C7 witness: resolve4 returned two addresses and the lookup returned with
\* the first of them.
C7_Witness ==
  /\ Returned
  /\ Answered(Key("resolve4", last.input, 0))
  /\ world[Key("resolve4", last.input, 0)].addresses = <<A_SECOND, A_FIRST>>
  /\ last.ip = A_SECOND
  /\ ~HasError(last.result)

\* C8 (as claimed): the provider of every returned result is 'local' or
\* 'ipinfo', never 'auto', on every path.
C8_ConcreteProvider ==
  (Returned /\ options.provider \in ProviderTypes) =>
     last.result.provider \in {"local", "ipinfo"}

\* C9: a returned result with error set has neither a network nor a cdn
\* field, and detectCdn is called only after a provider lookup whose result
\* has no error.
C9_ErrorSuppresses ==
  Returned =>
     /\ HasError(last.result) =>
          /\ DOMAIN last.result \cap {"network", "cdn"} = {}
          /\ "detectCdn" \notin Range(last.log)
     /\ "detectCdn" \in Range(last.log) =>
          /\ ~HasError(last.result)
          /\ Range(last.log) \cap {"local.lookup", "ipinfo.lookup"} # {}
          /\ last.log[Len(last.log)] = "detectCdn"

\* C9 witness: the remote provider returned an error for the address of a
\* hostname that detectCdn would classify.
C9_Witness ==
  /\ Returned
  /\ HasError(last.result)
  /\ "ipinfo.lookup" \in Range(last.log)
  /\ DetectCdn(last.result.ip, <<>>, HostnameArg(last.input)).isCdn

\* C10: a returned result carries the cdn field exactly when it has no error
\* and detectCdn, for its ip, its network's ASN and the hostname of the
\* input, returns isCdn = true; the field is then that classification.
C10_CdnIffDetected ==
  Returned =>
     LET r == last.result
         cdnInfo == DetectCdn(r.ip, AsnOf(r), HostnameArg(last.input))
     IN /\ "cdn" \in DOMAIN r <=> (~HasError(r) /\ cdnInfo.isCdn)
        /\ "cdn" \in DOMAIN r => (r.cdn = cdnInfo /\ r.cdn.isCdn)

\* C10 witness: a successful lookup that was classified as not CDN and whose
\* result has no cdn field.
C10_Witness ==
  /\ Returned
  /\ ~HasError(last.result)
  /\ "detectCdn" \in Range(last.log)
  /\ "cdn" \notin DOMAIN last.result

\* C11: the input field of every result lookup returns is the string the
\* caller passed, also where the provider had set it to the resolved IP.
C11_InputEchoed ==
  Returned => last.result.input = last.input

\* C11 witness: a hostname served by the remote provider after the local
\* one failed under 'auto'; the provider's own input was the resolved IP.
C11_Witness ==
  /\ Returned
  /\ IsIP(last.input) = 0
  /\ ~HasError(last.result)
  /\ last.result.ip # last.input
  /\ {"local.lookup", "ipinfo.lookup"} \subseteq Range(last.log)

\* A direct call of detectCdn has returned.
Detected == detect.called /\ detect.result # <<>>

\* The signals of the call's arguments, read off the tables.
AsnInTable == detect.asn # <<>> /\ detect.asn[1] \in DOMAIN CDN_ASNS

HostnameHits ==
  IF detect.hostname = <<>> THEN {}
  ELSE {i \in 1..Len(CDN_HOSTNAME_PATTERNS) :
          EndsWith(LowerCase(detect.hostname), CDN_HOSTNAME_PATTERNS[i][1])}

IpPrefixHits ==
  {i \in 1..Len(CDN_IP_PREFIXES) : StartsWith(detect.ip, CDN_IP_PREFIXES[i][1])}

\* C12: an ASN of the ASN table decides the result whatever the hostname and
\* the IP are; otherwise the first hostname pattern that matches decides
\* whatever the IP is; the first matching IP prefix decides only when
\* neither of them matches.
C12_SignalPriority ==
  Detected =>
    LET r == detect.result[1]
    IN /\ AsnInTable =>
            /\ r.isCdn
            /\ r.provider = CDN_ASNS[detect.asn[1]].name
            /\ r.type = CDN_ASNS[detect.asn[1]].type
            /\ r.note[2] = "ASN"
       /\ (~AsnInTable /\ HostnameHits # {}) =>
            \E i \in HostnameHits :
               /\ \A j \in HostnameHits : i <= j
               /\ r.isCdn
               /\ r.provider = CDN_HOSTNAME_PATTERNS[i][2]
               /\ r.type = CDN_HOSTNAME_PATTERNS[i][3]
               /\ r.note[2] = "hostname"
       /\ (~AsnInTable /\ HostnameHits = {} /\ IpPrefixHits # {}) =>
            \E i \in IpPrefixHits :
               /\ \A j \in IpPrefixHits : i <= j
               /\ r.isCdn
               /\ r.provider = CDN_IP_PREFIXES[i][2]
               /\ r.type = CDN_IP_PREFIXES[i][3]
               /\ r.note[2] = "IP range"

\* C12 witness: Fastly's ASN with a CloudFront hostname and an address in a
\* Cloudflare prefix is classified as Fastly.
C12_Witness ==
  /\ Detected
  /\ detect.asn = <<54113>>
  /\ detect.hostname = HOST_CDN
  /\ detect.ip = A_FIRST
  /\ detect.result[1].provider = "Fastly"

\* The categories of a classification.
CdnTypes == {"cdn", "cloud", "hosting", "security"}

\* C13: when no ASN, hostname pattern or IP prefix matches, detectCdn returns
\* {isCdn: false} and nothing else; when it returns isCdn = true, provider,
\* type (cdn, cloud, hosting or security) and note are all populated.
C13_ResultShape ==
  Detected =>
    LET r == detect.result[1]
    IN /\ (~AsnInTable /\ HostnameHits = {} /\ IpPrefixHits = {}) =>
            r = [isCdn |-> FALSE]
       /\ ~r.isCdn => DOMAIN r = {"isCdn"}
       /\ \A a \in DOMAIN CDN_ASNS :
            CDN_ASNS[a].name # "" /\ CDN_ASNS[a].type \in CdnTypes
       /\ \A i \in 1..Len(CDN_HOSTNAME_PATTERNS) :
            CDN_HOSTNAME_PATTERNS[i][2] # "" /\ CDN_HOSTNAME_PATTERNS[i][3] \in CdnTypes
       /\ \A i \in 1..Len(CDN_IP_PREFIXES) :
            CDN_IP_PREFIXES[i][2] # "" /\ CDN_IP_PREFIXES[i][3] \in CdnTypes
       /\ r.isCdn =>
            /\ DOMAIN r = {"isCdn", "provider", "type", "note"}
            /\ r.provider # ""
            /\ r.type \in CdnTypes
            /\ r.note # <<>>

\* C13 witness: an ASN outside the table, a hostname without a CDN suffix and
\* an address outside every prefix give {isCdn: false}.
C13_Witness ==
  /\ Detected
  /\ detect.asn = <<64500>>
  /\ detect.hostname = HOST_PLAIN
  /\ detect.ip = A_SECOND
  /\ detect.result[1] = [isCdn |-> FALSE]

\* C14 (as claimed): without ASN and hostname, an IPv6 address is classified
\* by its colon-hex prefix: 2606:4700: as Cloudflare / cdn, 2a04:4e42: as
\* Fastly, 2600:9000: as Amazon CloudFront, and an unrelated one as not CDN.
C14_Ipv6Prefixes ==
  (Detected /\ detect.asn = <<>> /\ detect.hostname = <<>>) =>
    LET r == detect.result[1]
    IN /\ StartsWith(detect.ip, <<"2606", ":", "4700", ":">>) =>
            (r.isCdn /\ r.provider = "Cloudflare" /\ r.type = "cdn")
       /\ StartsWith(detect.ip, <<"2a04", ":", "4e42", ":">>) =>
            (r.isCdn /\ r.provider = "Fastly")
       /\ StartsWith(detect.ip, <<"2600", ":", "9000", ":">>) =>
            (r.isCdn /\ r.provider = "Amazon CloudFront")
       /\ detect.ip = V6_GOOGLE => ~r.isCdn

\* The number of fetches a lookup issued.
FetchCount(log) == Cardinality({i \in 1..Len(log) : log[i] = "fetch"})

\* The answer to the last fetch of the lookup that returned.
LastFetch == world[Key("fetch", last.ip, FetchCount(last.log) - 1)]

\* The file system or the city database failed the returned local lookup.
LocalFailure ==
  \/ /\ Answered(Key("fileExists", <<"GeoLite2-City.mmdb">>, 0))
     /\ ~world[Key("fileExists", <<"GeoLite2-City.mmdb">>, 0)]
  \/ /\ Answered(Key("readFile", <<"GeoLite2-City.mmdb">>, 0))
     /\ world[Key("readFile", <<"GeoLite2-City.mmdb">>, 0)] = "throws"
  \/ /\ Answered(Key("readFile", <<"GeoLite2-ASN.mmdb">>, 0))
     /\ world[Key("readFile", <<"GeoLite2-ASN.mmdb">>, 0)] = "throws"
  \/ /\ Answered(Key("city.get", last.ip, 0))
     /\ world[Key("city.get", last.ip, 0)] \in {"absent", "throws"}

\* C15: the lookup of the local and of the ipinfo provider never rejects;
\* a missing file, a read error, an absent record, a throwing reader, a
\* non-2xx status, a network error, a timeout and an unparsable body all
\* come back as a result of that provider with error set.
C15_ProvidersNeverThrow ==
  /\ options.provider \in ProviderTypes =>
        \A w \in DOMAIN workers : workers[w].pc # "rejected"
  /\ (Returned /\ options.provider = "local" /\ "local.lookup" \in Range(last.log)
        /\ LocalFailure) =>
        /\ HasError(last.result)
        /\ last.result.provider = "local"
        /\ last.result.ip = last.ip
  /\ (Returned /\ options.provider = "ipinfo" /\ "ipinfo.lookup" \in Range(last.log)
        /\ LastFetch.kind # "ok") =>
        /\ HasError(last.result)
        /\ last.result.provider = "ipinfo"
        /\ last.result.ip = last.ip

\* C15 witness: the remote service answered three times with a body that
\* cannot be parsed, and the lookup returned an error result.
C15_Witness ==
  /\ Returned
  /\ options.provider = "ipinfo"
  /\ FetchCount(last.log) = MAX_RETRIES + 1
  /\ LastFetch.kind = "bad json"
  /\ HasError(last.result)

\* C16 (as claimed): with a provider outside local, ipinfo and auto, lookup
\* is rejected before any DNS query and never returns a result record.
C16_UnknownProviderRejected ==
  options.provider \notin ProviderTypes =>
    /\ ~Returned
    /\ world = <<>>

\* C17: once the remote service has answered 429 to attempt n, the lookup
\* issues no further fetch, and it returns the rate-limit error, which
\* names the local provider and the token.
C17_RateLimitStops ==
  \A w \in DOMAIN workers : \A n \in 0..MAX_RETRIES :
     LET me == workers[w]
         k == Key("fetch", me.ip, n)
     IN (/\ "ipinfo.lookup" \in Range(me.log)
         /\ Answered(k)
         /\ world[k] = [kind |-> "status", status |-> 429]) =>
           /\ FetchCount(me.log) = n + 1
           /\ me.pc = "returned"
           /\ last.result.provider = "ipinfo"
           /\ HasError(last.result)
           /\ last.result.error.msg =
                "Rate limit exceeded. Consider using --provider local or set IPINFO_TOKEN"

\* C17 witness: a 429 on the second attempt, after a retried failure.
C17_Witness ==
  /\ Returned
  /\ FetchCount(last.log) = 2
  /\ LastFetch = [kind |-> "status", status |-> 429]
  /\ HasError(last.result)

\* C18: onProgress is called once per completed lookup, the i-th call with
\* (i, N); when a batch with a concurrency of at least 1 returns, N calls
\* were made and the last one carried (N, N).
C18_ProgressCounts ==
  entry = "lookupBatch" =>
    /\ Len(progress) = completed
    /\ Cardinality({i \in DOMAIN results : results[i] # <<>>}) = completed
    /\ \A i \in 1..Len(progress) : progress[i] = <<i, Len(inputs)>>
    /\ (batch = "returned" /\ EffectiveConcurrency >= 1) =>
          Len(progress) = Len(inputs)

\* C18 witness: a batch of two inputs run by two workers has returned after
\* the calls (1, 2) and (2, 2).
C18_Witness ==
  /\ batch = "returned"
  /\ DOMAIN workers = 1..2
  /\ progress = << <<1, 2>>, <<2, 2>> >>

\* An org string of the form AS<digits> <name>.
AsForm(org) ==
  /\ Len(org) >= 3
  /\ org[2] = " "
  /\ \E n \in AsnUniverse : org[1] = "AS" \o ToString(n)

\* C19: a successful ipinfo result for a body whose org is AS<digits> <name>
\* has network.asn = the number and network.org = the name; for any other
\* non-empty org it has network.org = the whole value and no asn.
C19_OrgParsed ==
  (Returned /\ ~HasError(last.result) /\ last.result.provider = "ipinfo") =>
    LET org == LastFetch.org
        r == last.result
    IN /\ AsForm(org) =>
            /\ "network" \in DOMAIN r
            /\ \E n \in AsnUniverse :
                  /\ org[1] = "AS" \o ToString(n)
                  /\ r.network = [asn |-> n, org |-> SubSeq(org, 3, Len(org))]
       /\ (org # <<>> /\ ~AsForm(org)) =>
            /\ "network" \in DOMAIN r
            /\ r.network = [org |-> org]

\* C19 witness: "AS13335 Cloudflare, Inc." gave asn 13335 and org
\* "Cloudflare, Inc.".
C19_Witness ==
  /\ Returned
  /\ ~HasError(last.result)
  /\ last.result.provider = "ipinfo"
  /\ LastFetch.org = <<"AS13335", " ", "Cloudflare, Inc.">>
  /\ last.result.network = [asn |-> 13335, org |-> <<"Cloudflare, Inc.">>]

\* C20: a lookup of the local provider that finds the city database file
\* absent returns the error that says the database was not found and how
\* to fetch it.
C20_DatabaseMissing ==
  (/\ Returned
   /\ options.provider = "local"
   /\ "local.lookup" \in Range(last.log)
   /\ Answered(Key("fileExists", <<"GeoLite2-City.mmdb">>, 0))
   /\ ~world[Key("fileExists", <<"GeoLite2-City.mmdb">>, 0)]) =>
     /\ HasError(last.result)
     /\ last.result.provider = "local"
     /\ last.result.error.msg = "GeoLite2 database not found. Run: geovet db update"
     /\ DOMAIN last.result \cap {"network", "cdn"} = {}

\* C20 witness: a local lookup returned after fileExists(cityDbPath) was false.
C20_Witness ==
  /\ Returned
  /\ options.provider = "local"
  /\ "local.lookup" \in Range(last.log)
  /\ Answered(Key("fileExists", <<"GeoLite2-City.mmdb">>, 0))
  /\ ~world[Key("fileExists", <<"GeoLite2-City.mmdb">>, 0)]
  /\ HasError(last.result)

\* C21: without a configured concurrency lookupBatch hands 50 to parallelMap
\* for provider 'local' and 10 for 'ipinfo' and 'auto'; a configured
\* concurrency of at least 1 is handed over unchanged; the pool has that
\* many workers, or one per input when there are fewer inputs.
C21_DefaultConcurrency ==
  (/\ entry = "lookupBatch"
   /\ batch \in {"running", "returned"}
   /\ options.provider \in ProviderTypes
   /\ "concurrency" \in DOMAIN options => options.concurrency >= 1) =>
     LET pool == IF "concurrency" \in DOMAIN options THEN options.concurrency
                 ELSE IF options.provider = "local" THEN 50 ELSE 10
     IN /\ EffectiveConcurrency = pool
        /\ Cardinality(DOMAIN workers) = Min(pool, Len(inputs))

\* C21 witness: a batch of two inputs for provider 'local' without a
\* configured concurrency has returned after running two workers.
C21_Witness ==
  /\ batch = "returned"
  /\ "concurrency" \notin DOMAIN options
  /\ options.provider = "local"
  /\ Len(inputs) = 2
  /\ DOMAIN workers = 1..2

\* How often lookup called what.
Calls(log, what) == Cardinality({i \in 1..Len(log) : log[i] = what})

\* C24: with provider 'local' or 'ipinfo' a lookup that resolved its input
\* calls that provider's lookup exactly once and the other provider never,
\* also when the provider returns an error.
C24_ExplicitProviderOnly ==
  (Returned /\ last.ip # <<>>) =>
    /\ options.provider = "local" =>
          /\ Calls(last.log, "local.lookup") = 1
          /\ Calls(last.log, "ipinfo.lookup") = 0
          /\ Calls(last.log, "fetch") = 0
          /\ last.result.provider = "local"
    /\ options.provider = "ipinfo" =>
          /\ Calls(last.log, "ipinfo.lookup") = 1
          /\ Calls(last.log, "local.lookup") = 0
          /\ Calls(last.log, "local.isAvailable") = 0
          /\ last.result.provider = "ipinfo"

\* C24 witness: the local provider was asked explicitly and returned an error.
C24_Witness ==
  /\ Returned
  /\ last.ip # <<>>
  /\ options.provider = "local"
  /\ HasError(last.result)
  /\ Calls(last.log, "local.lookup") = 1

\* The local provider was found unavailable by the lookup that returned.
Unavailable ==
  \/ /\ Answered(Key("fileExists", <<"GeoLite2-City.mmdb">>, 0))
     /\ ~world[Key("fileExists", <<"GeoLite2-City.mmdb">>, 0)]
  \/ /\ Answered(Key("readFile", <<"GeoLite2-City.mmdb">>, 0))
     /\ world[Key("readFile", <<"GeoLite2-City.mmdb">>, 0)] = "throws"
  \/ /\ Answered(Key("readFile", <<"GeoLite2-ASN.mmdb">>, 0))
     /\ world[Key("readFile", <<"GeoLite2-ASN.mmdb">>, 0)] = "throws"

\* The city database's answer for the resolved IP of the lookup that returned.
CityAnswer == world[Key("city.get", last.ip, 0)]

\* C25: under 'auto' an available local provider is asked once; its result
\* without error is returned and the remote provider is not called; when it
\* returns an error, or when the local provider is unavailable, the remote
\* provider is called once and its result returned; an unavailable local
\* provider is not asked to look up.
C25_AutoFallback ==
  (Returned /\ last.ip # <<>> /\ options.provider = "auto") =>
    /\ Calls(last.log, "local.isAvailable") = 1
    /\ Unavailable =>
          /\ Calls(last.log, "local.lookup") = 0
          /\ Calls(last.log, "ipinfo.lookup") = 1
          /\ last.result.provider = "ipinfo"
    /\ ~Unavailable =>
          /\ Calls(last.log, "local.lookup") = 1
          /\ Answered(Key("city.get", last.ip, 0))
          /\ CityAnswer = "found" =>
                /\ Calls(last.log, "ipinfo.lookup") = 0
                /\ last.result.provider = "local"
                /\ ~HasError(last.result)
          /\ CityAnswer # "found" =>
                /\ Calls(last.log, "ipinfo.lookup") = 1
                /\ last.result.provider = "ipinfo"

\* C25 witness: the local provider was available, did not find the IP, and
\* the remote provider's result was returned without error.
C25_Witness ==
  /\ Returned
  /\ options.provider = "auto"
  /\ Calls(last.log, "local.lookup") = 1
  /\ Calls(last.log, "ipinfo.lookup") = 1
  /\ last.result.provider = "ipinfo"
  /\ ~HasError(last.result)

\* C26: under 'auto', when the local lookup and the remote lookup both
\* return an error, the result has provider 'ipinfo' and the remote error;
\* none of the local provider's errors appears in it.
C26_RemoteErrorWins ==
  (/\ Returned
   /\ options.provider = "auto"
   /\ Calls(last.log, "local.lookup") = 1
   /\ Calls(last.log, "ipinfo.lookup") = 1
   /\ HasError(last.result)) =>
     /\ last.result.provider = "ipinfo"
     /\ last.result.error.msg \in
          {"Rate limit exceeded. Consider using --provider local or set IPINFO_TOKEN",
           "API error: ", "Request failed: "}
     /\ last.result.error.msg \notin
          {"GeoLite2 database not found. Run: geovet db update",
           "IP not found in database", "Lookup failed: "}

\* C26 witness: the city reader threw and the remote service answered 404.
C26_Witness ==
  /\ Returned
  /\ options.provider = "auto"
  /\ Answered(Key("city.get", last.ip, 0))
  /\ CityAnswer = "throws"
  /\ HasError(last.result)
  /\ last.result.error.arg = <<"404">>

\* C27: lookup hands the input to detectCdn as hostname only when the input
\* is not a literal IP; for a literal IP no hostname is handed over and a
\* classification is never one by hostname.
C27_HostnameOnlyForNames ==
  (Returned /\ "detectCdn" \in Range(last.log)) =>
    /\ IsIP(last.input) # 0 =>
          /\ last.hostname = <<>>
          /\ "cdn" \in DOMAIN last.result =>
                last.result.cdn.note[2] \in {"ASN", "IP range"}
    /\ IsIP(last.input) = 0 => last.hostname = last.input

\* C27 witness: a literal IP was classified by its ASN.
C27_Witness ==
  /\ Returned
  /\ IsIP(last.input) # 0
  /\ "cdn" \in DOMAIN last.result
  /\ last.result.cdn.note[2] = "ASN"

\* C29: once the remote service has answered attempt n with a 4xx status
\* other than 429, the lookup issues no further fetch and returns the error
\* that carries the status.
C29_ClientErrorStops ==
  \A w \in DOMAIN workers : \A n \in 0..MAX_RETRIES :
     LET me == workers[w]
         k == Key("fetch", me.ip, n)
     IN (/\ "ipinfo.lookup" \in Range(me.log)
         /\ Answered(k)
         /\ world[k].kind = "status"
         /\ world[k].status \in (400..499) \ {429}) =>
           /\ FetchCount(me.log) = n + 1
           /\ me.pc = "returned"
           /\ last.result.provider = "ipinfo"
           /\ HasError(last.result)
           /\ last.result.error = [msg |-> "API error: ",
                                    arg |-> <<ToString(world[k].status)>>]

\* C29 witness: a 404 on the second attempt, after a retried failure.
C29_Witness ==
  /\ Returned
  /\ FetchCount(last.log) = 2
  /\ LastFetch = [kind |-> "status", status |-> 404]
  /\ HasError(last.result)

\* C30 (as claimed): one lookup issues at most 3 fetches, and a further
\* fetch only after one that ended in a 5xx status, a network error or a
\* timeout.
C30_RetriesOnlyTransient ==
  \A w \in DOMAIN workers :
     LET me == workers[w]
     IN /\ FetchCount(me.log) <= 3
        /\ \A n \in 1..MAX_RETRIES :
             FetchCount(me.log) > n =>
               LET prev == world[Key("fetch", me.ip, n - 1)]
               IN \/ prev.kind = "status" /\ prev.status >= 500
                  \/ prev.kind \in {"network error", "timeout"}

\* C28 (as claimed): for every signal the note of a detection says 'edge
\* server' exactly when the type is cdn and 'cloud region' exactly when the
\* type is cloud; for hosting and security it says neither.
C28_NoteWording ==
  (Detected /\ detect.result[1].isCdn) =>
    LET r == detect.result[1]
        phrases == Range(r.note)
    IN /\ "edge server" \in phrases <=> r.type = "cdn"
       /\ "cloud region" \in phrases <=> r.type = "cloud"

\* The CLI has called lookupBatch.
CliCalledBatch == entry = "cli" /\ batch \in {"called", "running", "returned", "threw"}

\* C22 (as claimed): the lookup command run without -c performs the batch
\* with concurrency 50 for the local provider and 10 for the ipinfo provider.
C22_CliDefaultConcurrency ==
  (CliCalledBatch /\ cli.concurrency = <<>>) =>
    /\ cli.provider = "local" => EffectiveConcurrency = 50
    /\ cli.provider = "ipinfo" => EffectiveConcurrency = 10

\* C23 (as claimed): the lookup command run on some target with -c 0 or a
\* negative -c performs no lookup and exits with a failure whose message says that the
\* concurrency must be a positive integer.
C23_CliRejectsConcurrency ==
  (/\ entry = "cli"
   /\ Len(inputs) > 0
   /\ cli.concurrency # <<>>
   /\ ParseInt(cli.concurrency[1]) # <<>>
   /\ ParseInt(cli.concurrency[1])[1] <= 0) =>
     /\ workers = <<>>
     /\ batch \notin {"running", "returned"}
     /\ cli.exit # <<>> =>
          /\ cli.exit[1] # 0
          /\ \E i \in 1..Len(cli.stderr) :
                cli.stderr[i] = "concurrency must be a positive integer"

\* Every attempt of the returned ipinfo lookup ended in a failure that is
\* retried: a 5xx status, a network error or a timeout.
AllAttemptsRetryable ==
  /\ Returned
  /\ "ipinfo.lookup" \in Range(last.log)
  /\ FetchCount(last.log) = MAX_RETRIES + 1
  /\ \A n \in 0..MAX_RETRIES :
       LET f == world[Key("fetch", last.ip, n)]
       IN \/ f.kind = "status" /\ f.status >= 500
          \/ f.kind \in {"network error", "timeout"}

\* C31 (as claimed): when every attempt of an ipinfo lookup failed with a
\* 5xx status, a network error or a timeout, the error of the result is the
\* one of the last attempt: its status, the timeout, or its network error.
C31_LastErrorReturned ==
  AllAttemptsRetryable =>
    /\ HasError(last.result)
    /\ LastFetch.kind = "status" =>
          last.result.error = [msg |-> "API error: ",
                               arg |-> <<ToString(LastFetch.status)>>]
    /\ LastFetch.kind = "timeout" =>
          /\ last.result.error.msg = "Request failed: "
          /\ last.result.error.arg \in
               {<<"Request timeout">>, <<"This operation was aborted">>}
    /\ LastFetch.kind = "network error" =>
          last.result.error = [msg |-> "Request failed: ", arg |-> <<"fetch failed">>]

\* The ASN database file was found absent by the lookup that returned.
AsnFileAbsent ==
  /\ Answered(Key("fileExists", <<"GeoLite2-ASN.mmdb">>, 0))
  /\ ~world[Key("fileExists", <<"GeoLite2-ASN.mmdb">>, 0)]

\* The ASN database was asked for the resolved IP and has no record of it.
AsnRecordAbsent ==
  /\ Answered(Key("asn.get", last.ip, 0))
  /\ world[Key("asn.get", last.ip, 0)] = <<>>

\* C32: a lookup of the local provider that finds the IP in the city
\* database returns a result of that provider without error, whether the
\* ASN database file exists or not and whether it knows the IP or not; when
\* the file is absent or has no record of the IP, the result has no network
\* field, and when it has a record, the network field is that record.
C32_AsnOptional ==
  (/\ Returned
   /\ options.provider = "local"
   /\ Answered(Key("city.get", last.ip, 0))
   /\ CityAnswer = "found") =>
     /\ ~HasError(last.result)
     /\ last.result.provider = "local"
     /\ (AsnFileAbsent \/ AsnRecordAbsent) => "network" \notin DOMAIN last.result
     /\ (Answered(Key("asn.get", last.ip, 0)) /\ ~AsnRecordAbsent) =>
           /\ "network" \in DOMAIN last.result
           /\ <<last.result.network>> = world[Key("asn.get", last.ip, 0)]

\* C32 witness: the ASN database file was absent, the city database had the
\* IP, and the lookup returned a result without error and without network.
C32_Witness ==
  /\ Returned
  /\ options.provider = "local"
  /\ AsnFileAbsent
  /\ Answered(Key("city.get", last.ip, 0))
  /\ CityAnswer = "found"
  /\ ~HasError(last.result)
  /\ "network" \notin DOMAIN last.result

\* The callers of initReaders whose readFile of a database file is pending.
Reading(pc) == {w \in DOMAIN workers : workers[w].pc = pc}

\* C33 (as claimed): among the concurrent lookups of a batch at most one
\* read of the city database file and at most one read of the ASN database
\* file is ever under way, and none once the city reader is loaded.
C33_InitialisedOnce ==
  /\ Cardinality(Reading("readFile city")) <= 1
  /\ Cardinality(Reading("readFile asn")) <= 1
  /\ readers.city => Reading("readFile city") = {}

\* The lookups in flight: claimed by a worker and not yet completed.
InFlight == index - completed

\* C34: while a batch with a concurrency of at least 1 runs, and after it,
\* the number of lookups claimed and not completed is at most
\* min(concurrency, N), and each of them is held by a worker of its own.
C34_InFlightBounded ==
  LET pool == IF "concurrency" \in DOMAIN options THEN options.concurrency
              ELSE IF options.provider = "local" THEN 50 ELSE 10
      busy == {w \in DOMAIN workers : workers[w].pc # "exited"}
  IN (entry = "lookupBatch" /\ pool >= 1) =>
       /\ InFlight <= Min(pool, Len(inputs))
       /\ InFlight = Cardinality(busy)

\* C34 witness: a batch of two inputs with concurrency 1 has its second
\* lookup in flight after the first completed.
C34_Witness ==
  /\ entry = "lookupBatch"
  /\ batch = "running"
  /\ "concurrency" \in DOMAIN options
  /\ options.concurrency = 1
  /\ Len(inputs) = 2
  /\ completed = 1
  /\ InFlight = 1

\* The result slots that have been written.
Filled == {i \in 1..Len(results) : results[i] # <<>>}

\* The indices held by workers that have not left their loop.
Held == {workers[w].idx : w \in {v \in DOMAIN workers : workers[v].pc # "exited"}}

C38_NetworkWhenAsnKnown ==
  (/\ entry = "lookupBatch"
   /\ options.provider = "local"
   /\ world[Key("fileExists", <<"GeoLite2-ASN.mmdb">>, 0)]
   /\ world[Key("readFile", <<"GeoLite2-ASN.mmdb">>, 0)] = "ok") =>
     \A i \in 1..Len(results) :
        (/\ results[i] # <<>>
         /\ ~HasError(results[i][1])
         /\ world[Key("asn.get", results[i][1].ip, 0)] # <<>>)
           => "network" \in DOMAIN results[i][1]

\* C39: once an attempt of an ipinfo lookup, the first or a retry, is
\* answered 200 with a body that parses, the lookup issues no further fetch
\* and returns a result of that provider without error, whatever the earlier
\* attempts ended in.
C39_SuccessAfterRetry ==
  \A n \in 0..MAX_RETRIES :
     (/\ Returned
      /\ "ipinfo.lookup" \in Range(last.log)
      /\ FetchCount(last.log) > n
      /\ world[Key("fetch", last.ip, n)].kind = "ok") =>
        /\ FetchCount(last.log) = n + 1
        /\ ~HasError(last.result)
        /\ last.result.provider = "ipinfo"
        /\ last.result.ip = world[Key("fetch", last.ip, n)].ip

\* C39 witness: a 503 and a timeout were retried, the third attempt was
\* answered with a body, and the result has no error.
C39_Witness ==
  /\ Returned
  /\ "ipinfo.lookup" \in Range(last.log)
  /\ FetchCount(last.log) = MAX_RETRIES + 1
  /\ world[Key("fetch", last.ip, 0)] = [kind |-> "status", status |-> 503]
  /\ world[Key("fetch", last.ip, 1)].kind = "timeout"
  /\ LastFetch.kind = "ok"
  /\ ~HasError(last.result)

\* C40 (as claimed): for every entry of the hostname pattern list, detectCdn
\* called without an ASN for the hostname x<suffix of the entry> returns
\* the entry's provider and type; so x.cdnjs.cloudflare.com gives cdnjs and
\* x.cloudapp.azure.com gives Azure.
C40_EveryPatternReachable ==
  \A p \in 1..Len(CDN_HOSTNAME_PATTERNS) :
     (/\ Detected
      /\ detect.asn = <<>>
      /\ detect.hostname = <<"x">> \o CDN_HOSTNAME_PATTERNS[p][1]) =>
        /\ detect.result[1].isCdn
        /\ detect.result[1].provider = CDN_HOSTNAME_PATTERNS[p][2]
        /\ detect.result[1].type = CDN_HOSTNAME_PATTERNS[p][3]

\* The inputs other than the slow one all have their result.
FastInputsDone ==
  \A i \in 1..Len(inputs) : inputs[i] # SLOW_INPUT => results[i] # <<>>

\* A batch with at least two workers, exactly one of whose inputs is slow.
OneSlowLookup ==
  /\ entry = "lookupBatch"
  /\ options.concurrency >= 2
  /\ Cardinality({i \in 1..Len(inputs) : inputs[i] = SLOW_INPUT}) = 1

\* C35: in a batch with a concurrency of at least 2 in which one lookup is
\* slow or never completes, every other input is eventually claimed and
\* gets its result, wherever in the list the slow input stands.
C35_SlowDoesNotStall ==
  (batch = "called" /\ OneSlowLookup) ~> FastInputsDone

\* C35 witness: the slow lookup is the first input and still waits for its
\* DNS answer, and the other worker has completed the second and the third.
C35_Witness ==
  /\ OneSlowLookup
  /\ batch = "running"
  /\ Len(inputs) = 3
  /\ inputs[1] = SLOW_INPUT
  /\ workers[1].idx = 1
  /\ workers[1].pc = "resolve4"
  /\ workers[2].idx = 3
  /\ workers[2].pc = "exited"
  /\ FastInputsDone

\* A batch with a provider of the configuration and a concurrency of at least 1.
ValidBatch ==
  /\ entry = "lookupBatch"
  /\ options.provider \in ProviderTypes
  /\ "concurrency" \in DOMAIN options => options.concurrency >= 1

\* Every input's lookup has run to its result and every worker has left its loop.
AllInputsDone ==
  /\ \A i \in 1..Len(inputs) : results[i] # <<>>
  /\ \A w \in DOMAIN workers : workers[w].pc = "exited"
  /\ index = Len(inputs)
  /\ completed = Len(inputs)

\* C36: when every individual lookup terminates, a batch that was started
\* eventually returns, and at its return every input has its result (with
\* or without error), none is left unclaimed or pending.
C36_BatchCompletes ==
  /\ [](ValidBatch /\ batch = "returned" => AllInputsDone)
  /\ (ValidBatch /\ batch = "called") ~> (batch = "returned")

\* C36 witness: a batch of two inputs with concurrency 1 has returned, one
\* worker having run both lookups, one of them to an error.
C36_Witness ==
  /\ ValidBatch
  /\ batch = "returned"
  /\ Len(inputs) = 2
  /\ DOMAIN workers = {1}
  /\ AllInputsDone
  /\ \E i \in 1..2 : HasError(results[i][1])

====
